---- MODULE Spec2Model ----
(***************************************************************************)
(* A model of log_cleaner (src/src/logcleaner): the statement matcher and  *)
(* file rewriter of cleaner.py and the log date extractor and truncator of *)
(* file_manager.py.                                                        *)
(*                                                                         *)
(* Text is modelled character by character: a string is a sequence of      *)
(* one-character strings, a line as Python's readlines() returns it ends   *)
(* with "\n" when the file line had a terminator, and every regular        *)
(* expression of the source is an operator over such sequences.            *)
(***************************************************************************)
EXTENDS Integers, Sequences, FiniteSets, TLC

(***************************************************************************)
(* Character classes of Python's re and str.                               *)
(***************************************************************************)
Digit == {"0", "1", "2", "3", "4", "5", "6", "7", "8", "9"}

Lower == {"a", "b", "c", "d", "e", "f", "g", "h", "i", "j", "k", "l", "m",
          "n", "o", "p", "q", "r", "s", "t", "u", "v", "w", "x", "y", "z"}

Upper == {"A", "B", "C", "D", "E", "F", "G", "H", "I", "J", "K", "L", "M",
          "N", "O", "P", "Q", "R", "S", "T", "U", "V", "W", "X", "Y", "Z"}

\* [a-zA-Z]
Alpha == Lower \cup Upper

\* \w
WordChar == Alpha \cup Digit \cup {"_"}

\* \s, and the characters str.strip() removes
Whitespace == {" ", "\t", "\n", "\r", "\f"}

(***************************************************************************)
(* String primitives.                                                      *)
(***************************************************************************)
\* s[i:i+len(lit)] == lit, with 1-based i
LitAt(s, i, lit) ==
    /\ i >= 1
    /\ i + Len(lit) - 1 <= Len(s)
    /\ SubSeq(s, i, i + Len(lit) - 1) = lit

\* lit in s
Contains(s, lit) == \E i \in 1..Len(s) : LitAt(s, i, lit)

\* s.startswith(lit)
startswith(s, lit) == LitAt(s, 1, lit)

\* The index after the longest run of characters of class C that starts at i
\* (what a greedy C* consumes).
RECURSIVE RunEnd(_, _, _)
RunEnd(s, i, C) ==
    IF i <= Len(s) /\ s[i] \in C THEN RunEnd(s, i + 1, C) ELSE i

RECURSIVE lstrip(_)
lstrip(s) ==
    IF s # <<>> /\ Head(s) \in Whitespace THEN lstrip(Tail(s)) ELSE s

RECURSIVE rstrip(_)
rstrip(s) ==
    IF s # <<>> /\ s[Len(s)] \in Whitespace
    THEN rstrip(SubSeq(s, 1, Len(s) - 1))
    ELSE s

\* str.strip()
strip(s) == rstrip(lstrip(s))

\* The least element of a non-empty set of indices: re.search reports the
\* leftmost match.
Leftmost(S) == CHOOSE i \in S : \A j \in S : i <= j

(***************************************************************************)
(* The literals of the patterns of LogCleaner.                             *)
(***************************************************************************)
Lit ==
    [ console       |-> <<"c","o","n","s","o","l","e",".">>,
      hash          |-> <<"#">>,
      import        |-> <<"i","m","p","o","r","t">>,
      from          |-> <<"f","r","o","m">>,
      logging       |-> <<"l","o","g","g","i","n","g">>,
      logging_dot   |-> <<"l","o","g","g","i","n","g",".">>,
      logger        |-> <<"l","o","g","g","e","r">>,
      logger_dot    |-> <<"l","o","g","g","e","r",".">>,
      ulogger_dot   |-> <<"_","l","o","g","g","e","r",".">>,
      getLogger     |-> <<"g","e","t","L","o","g","g","e","r">>,
      getLoggerCall |-> <<"l","o","g","g","i","n","g",".","g","e","t","L","o","g","g","e","r","(">>,
      import_logging |-> <<"i","m","p","o","r","t"," ","l","o","g","g","i","n","g">>,
      logging_import |-> <<"l","o","g","g","i","n","g","_","i","m","p","o","r","t">>,
      logger_definition |-> <<"l","o","g","g","e","r","_","d","e","f","i","n","i","t","i","o","n">>,
      logger_statement  |-> <<"l","o","g","g","e","r","_","s","t","a","t","e","m","e","n","t">>,
      logging_statement |-> <<"l","o","g","g","i","n","g","_","s","t","a","t","e","m","e","n","t">>,
      unknown       |-> <<"u","n","k","n","o","w","n">> ]

console_methods ==
    << <<"l","o","g">>, <<"e","r","r","o","r">>, <<"w","a","r","n">>, <<"i","n","f","o">>, <<"d","e","b","u","g">>,
       <<"t","r","a","c","e">>, <<"d","i","r">>, <<"d","i","r","x","m","l">>, <<"t","a","b","l","e">>, <<"c","o","u","n","t">>,
       <<"c","o","u","n","t","R","e","s","e","t">>, <<"a","s","s","e","r","t">>, <<"c","l","e","a","r">>, <<"g","r","o","u","p">>,
       <<"g","r","o","u","p","E","n","d">>, <<"g","r","o","u","p","C","o","l","l","a","p","s","e","d">>, <<"t","i","m","e">>, <<"t","i","m","e","E","n","d">>,
       <<"t","i","m","e","L","o","g">>, <<"p","r","o","f","i","l","e">>, <<"p","r","o","f","i","l","e","E","n","d">> >>

CStyleTypes == {".js", ".jsx", ".ts", ".tsx"}

PythonTypes == {".py"}

\* console_pattern:
\*   \bconsole\.(m1|m2|...)\s*\(\s*(?:[^;]*?\s*\+?\s*)*[^;]*?\);?
\* Every piece between "(" and the closing ")" matches only characters other
\* than ";", and together they match any such string, so the pattern matches
\* at i iff "console." starts a word there, an allow-listed method follows,
\* then optional whitespace and "(", and some later ")" is reached with no
\* ";" in between.
ConsoleCallAt(line, i, m) ==
    /\ i = 1 \/ line[i - 1] \notin WordChar
    /\ LitAt(line, i, Lit.console \o m)
    /\ LET open == RunEnd(line, i + Len(Lit.console) + Len(m), Whitespace)
       IN  /\ open <= Len(line)
           /\ line[open] = "("
           /\ \E close \in (open + 1)..Len(line) :
                /\ line[close] = ")"
                /\ \A q \in (open + 1)..(close - 1) : line[q] # ";"

\* compiled_console_pattern.search(line) is not None
console_pattern_search(line) ==
    \E i \in 1..Len(line) : \E k \in 1..Len(console_methods) :
        ConsoleCallAt(line, i, console_methods[k])

(***************************************************************************)
(* python_patterns, in the order of the list.                              *)
(***************************************************************************)
\* lit, then \s+, then at the returned index the rest; 0 when no \s follows
AfterSpaces(line, i) ==
    IF i <= Len(line) /\ line[i] \in Whitespace
    THEN RunEnd(line, i, Whitespace)
    ELSE 0

\* import\s+logging\s*(?:as\s+\w+)?\s*
ImportLoggingAt(line, i) ==
    /\ LitAt(line, i, Lit.import)
    /\ LET j == AfterSpaces(line, i + Len(Lit.import))
       IN  j > 0 /\ LitAt(line, j, Lit.logging)

\* from\s+logging\s+import\s+.*
FromLoggingAt(line, i) ==
    /\ LitAt(line, i, Lit.from)
    /\ LET j == AfterSpaces(line, i + Len(Lit.from))
       IN  /\ j > 0
           /\ LitAt(line, j, Lit.logging)
           /\ LET k == AfterSpaces(line, j + Len(Lit.logging))
              IN  /\ k > 0
                  /\ LitAt(line, k, Lit.import)
                  /\ AfterSpaces(line, k + Len(Lit.import)) > 0

\* _?logger\s*=\s*logging\.getLogger\([^)]*\)
GetLoggerAt(line, i) ==
    /\ LitAt(line, i, Lit.logger)
    /\ LET eq == RunEnd(line, i + Len(Lit.logger), Whitespace)
       IN  /\ eq <= Len(line)
           /\ line[eq] = "="
           /\ LET call == RunEnd(line, eq + 1, Whitespace)
              IN  /\ LitAt(line, call, Lit.getLoggerCall)
                  /\ \E close \in (call + Len(Lit.getLoggerCall))..Len(line) :
                        line[close] = ")"

\* <prefix>[a-zA-Z]+\([^)]*\)       (prefix is "logging." or "logger.")
SimpleCallAt(line, i, prefix) ==
    /\ LitAt(line, i, prefix)
    /\ LET name == i + Len(prefix)
           open == RunEnd(line, name, Alpha)
       IN  /\ open > name
           /\ open <= Len(line)
           /\ line[open] = "("
           /\ \E close \in (open + 1)..Len(line) : line[close] = ")"

\* <prefix>[a-zA-Z]+\s*\(\s*(?:[^()]*?\s*\+?\s*)*[^()]*?\)
\* Between "(" and ")" every piece matches only characters other than the
\* two parentheses.
SpacedCallAt(line, i, prefix) ==
    /\ LitAt(line, i, prefix)
    /\ LET name == i + Len(prefix)
           after == RunEnd(line, name, Alpha)
           open == RunEnd(line, after, Whitespace)
       IN  /\ after > name
           /\ open <= Len(line)
           /\ line[open] = "("
           /\ \E close \in (open + 1)..Len(line) :
                /\ line[close] = ")"
                /\ \A q \in (open + 1)..(close - 1) :
                      line[q] \notin {"(", ")"}

NumPythonPatterns == 7

\* compiled_python_patterns[p - 1].search(line) is not None
python_pattern_search(p, line) ==
    \E i \in 1..Len(line) :
        CASE p = 1 -> ImportLoggingAt(line, i)
          [] p = 2 -> FromLoggingAt(line, i)
          [] p = 3 -> GetLoggerAt(line, i)
          [] p = 4 -> SimpleCallAt(line, i, Lit.logging_dot)
          [] p = 5 -> SimpleCallAt(line, i, Lit.logger_dot)
          [] p = 6 -> SpacedCallAt(line, i, Lit.logging_dot)
          [] p = 7 -> SpacedCallAt(line, i, Lit.logger_dot)

(***************************************************************************)
(* LogCleaner.should_remove_line                                           *)
(***************************************************************************)
\* should_remove_line without the test for a comment
should_remove_line_no_comment_check(line, file_type) ==
    LET stripped_line == strip(line)
    IN  IF stripped_line = <<>>
        THEN FALSE
        ELSE IF file_type \in CStyleTypes
        THEN console_pattern_search(line)
        ELSE IF file_type \in PythonTypes
        THEN \E p \in 1..NumPythonPatterns : python_pattern_search(p, line)
        ELSE FALSE

should_remove_line(line, file_type) ==
    LET stripped_line == strip(line)
    IN  IF stripped_line = <<>> \/ startswith(stripped_line, Lit.hash)
        THEN FALSE
        ELSE IF file_type \in CStyleTypes
        THEN console_pattern_search(line)
        ELSE IF file_type \in PythonTypes
        THEN \E p \in 1..NumPythonPatterns : python_pattern_search(p, line)
        ELSE FALSE

(***************************************************************************)
(* LogCleaner.get_statement_type                                           *)
(***************************************************************************)
\* re.search(<prefix>(\w+), line): group 1 of the leftmost match, << >> when
\* the pattern matches nowhere.
WordAfter(line, prefix) ==
    LET hits == { i \in 1..Len(line) :
                    /\ LitAt(line, i, prefix)
                    /\ i + Len(prefix) <= Len(line)
                    /\ line[i + Len(prefix)] \in WordChar }
    IN  IF hits = {} THEN <<>>
        ELSE LET b == Leftmost(hits) + Len(prefix)
             IN  SubSeq(line, b, RunEnd(line, b, WordChar) - 1)

\* get_statement_type testing for "logging." before "_logger." and "logger."
get_statement_type_logging_first(line, file_type) ==
    IF file_type \in CStyleTypes
    THEN LET m == WordAfter(line, Lit.console)
         IN  IF m # <<>> THEN Lit.console \o m ELSE Lit.unknown
    ELSE IF file_type \in PythonTypes
    THEN IF Contains(line, Lit.import_logging) THEN Lit.logging_import
         ELSE IF Contains(line, Lit.getLogger) THEN Lit.logger_definition
         ELSE IF Contains(line, Lit.logging_dot)
         THEN LET m == WordAfter(line, Lit.logging_dot)
              IN  IF m # <<>> THEN Lit.logging_dot \o m ELSE Lit.logging_statement
         ELSE IF Contains(line, Lit.ulogger_dot) \/ Contains(line, Lit.logger_dot)
         THEN LET m == WordAfter(line, Lit.logger_dot)
              IN  IF m # <<>> THEN Lit.logger_dot \o m ELSE Lit.logger_statement
         ELSE Lit.unknown
    ELSE Lit.unknown

get_statement_type(line, file_type) ==
    IF file_type \in CStyleTypes
    THEN LET m == WordAfter(line, Lit.console)
         IN  IF m # <<>> THEN Lit.console \o m ELSE Lit.unknown
    ELSE IF file_type \in PythonTypes
    THEN IF Contains(line, Lit.import_logging) THEN Lit.logging_import
         ELSE IF Contains(line, Lit.getLogger) THEN Lit.logger_definition
         ELSE IF Contains(line, Lit.ulogger_dot) \/ Contains(line, Lit.logger_dot)
         THEN LET m == WordAfter(line, Lit.logger_dot)
              IN  IF m # <<>> THEN Lit.logger_dot \o m ELSE Lit.logger_statement
         ELSE IF Contains(line, Lit.logging_dot)
         THEN LET m == WordAfter(line, Lit.logging_dot)
              IN  IF m # <<>> THEN Lit.logging_dot \o m ELSE Lit.logging_statement
         ELSE Lit.unknown
    ELSE Lit.unknown

(***************************************************************************)
(* LogFileManager.datetime_patterns: the regular expressions as sequences  *)
(* of character classes, each matching one character, or one or more when  *)
(* plus is set, and the strptime formats as sequences of directives and    *)
(* literal characters.                                                     *)
(***************************************************************************)
One(C) == << [cls |-> C, plus |-> FALSE] >>

Many(C) == << [cls |-> C, plus |-> TRUE] >>

\* \d{4}-\d{2}-\d{2}
ReDate ==
    One(Digit) \o One(Digit) \o One(Digit) \o One(Digit) \o One({"-"})
    \o One(Digit) \o One(Digit) \o One({"-"}) \o One(Digit) \o One(Digit)

\* \d{2}:\d{2}:\d{2}
ReTime ==
    One(Digit) \o One(Digit) \o One({":"}) \o One(Digit) \o One(Digit)
    \o One({":"}) \o One(Digit) \o One(Digit)

\* [A-Za-z]{3}
ReAbbr == One(Alpha) \o One(Alpha) \o One(Alpha)

\* \d{4}
ReYear == One(Digit) \o One(Digit) \o One(Digit) \o One(Digit)

FmtDate == << "%Y", "-", "%m", "-", "%d" >>

FmtTime == << "%H", ":", "%M", ":", "%S" >>

datetime_patterns ==
    << [regex  |-> ReDate,
        format |-> FmtDate],
       [regex  |-> ReDate \o One({" "}) \o ReTime,
        format |-> FmtDate \o << " " >> \o FmtTime],
       [regex  |-> ReDate \o One({"T"}) \o ReTime,
        format |-> FmtDate \o << "T" >> \o FmtTime],
       [regex  |-> One(Digit) \o One(Digit) \o One({"/"}) \o One(Digit)
                   \o One(Digit) \o One({"/"}) \o ReYear,
        format |-> << "%m", "/", "%d", "/", "%Y" >>],
       [regex  |-> ReDate \o One({"T"}) \o ReTime \o One({"+", "-"})
                   \o One(Digit) \o One(Digit) \o One({":"}) \o One(Digit)
                   \o One(Digit),
        format |-> FmtDate \o << "T" >> \o FmtTime \o << "%z" >>],
       [regex  |-> ReAbbr \o One({" "}) \o One(Digit) \o One(Digit)
                   \o One({" "}) \o ReTime \o One({" "}) \o ReYear,
        format |-> << "%b", " ", "%d", " " >> \o FmtTime \o << " ", "%Y" >>],
       [regex  |-> ReYear \o ReYear \o One(Digit) \o One(Digit),
        format |-> << "%s" >>],
       [regex  |-> ReDate \o One({"T"}) \o ReTime \o One({"."}) \o Many(Digit)
                   \o One({"Z"}),
        format |-> FmtDate \o << "T" >> \o FmtTime \o << ".", "%f", "Z" >>],
       [regex  |-> ReAbbr \o One({" "}) \o ReAbbr \o One({" "}) \o One(Digit)
                   \o One(Digit) \o One({" "}) \o ReTime \o One({" "})
                   \o ReYear,
        format |-> << "%a", " ", "%b", " ", "%d", " " >> \o FmtTime
                   \o << " ", "%Y" >>],
       [regex  |-> ReYear \o ReYear,
        format |-> << "%Y", "%m", "%d" >>] >>

(***************************************************************************)
(* re.search(pattern, line)                                                *)
(***************************************************************************)
\* The index after the match of regex[k..] that starts at s[i], 0 when there
\* is none. A "+" class is always followed by a character outside the class,
\* so the longest run is the only candidate.
RECURSIVE MatchEnd(_, _, _, _)
MatchEnd(s, i, regex, k) ==
    IF k > Len(regex) THEN i
    ELSE IF i > Len(s) \/ s[i] \notin regex[k].cls THEN 0
    ELSE IF regex[k].plus
    THEN MatchEnd(s, RunEnd(s, i, regex[k].cls), regex, k + 1)
    ELSE MatchEnd(s, i + 1, regex, k + 1)

\* match.group(1) of re.search(regex, s): the leftmost match, << >> when the
\* pattern matches nowhere (no pattern of the table matches the empty string).
re_search(regex, s) ==
    LET hits == { i \in 1..Len(s) : MatchEnd(s, i, regex, 1) > 0 }
    IN  IF hits = {} THEN <<>>
        ELSE LET i == Leftmost(hits)
             IN  SubSeq(s, i, MatchEnd(s, i, regex, 1) - 1)

(***************************************************************************)
(* datetime.strptime(s, format) on the strings the patterns above match:   *)
(* every numeric field has the width the pattern gave it.                  *)
(***************************************************************************)
DigitValue ==
    [c \in Digit |->
        CASE c = "0" -> 0 [] c = "1" -> 1 [] c = "2" -> 2 [] c = "3" -> 3
          [] c = "4" -> 4 [] c = "5" -> 5 [] c = "6" -> 6 [] c = "7" -> 7
          [] c = "8" -> 8 [] c = "9" -> 9]

\* int(s[i:i+n]) of n digits, -1 when a character is not a digit
RECURSIVE Num(_, _, _)
Num(s, i, n) ==
    IF n = 0 THEN 0
    ELSE IF i + n - 1 > Len(s) \/ s[i + n - 1] \notin Digit THEN -1
    ELSE LET front == Num(s, i, n - 1)
         IN  IF front < 0 THEN -1 ELSE 10 * front + DigitValue[s[i + n - 1]]

UpperSeq == << "A", "B", "C", "D", "E", "F", "G", "H", "I", "J", "K", "L", "M",
               "N", "O", "P", "Q", "R", "S", "T", "U", "V", "W", "X", "Y", "Z" >>

LowerSeq == << "a", "b", "c", "d", "e", "f", "g", "h", "i", "j", "k", "l", "m",
               "n", "o", "p", "q", "r", "s", "t", "u", "v", "w", "x", "y", "z" >>

\* str.lower()
lower(s) ==
    [i \in 1..Len(s) |->
        IF s[i] \in Upper
        THEN LowerSeq[CHOOSE k \in 1..Len(UpperSeq) : UpperSeq[k] = s[i]]
        ELSE s[i]]

\* %b and %a are matched ignoring case against the locale's abbreviations
MonthAbbr ==
    << <<"j","a","n">>, <<"f","e","b">>, <<"m","a","r">>, <<"a","p","r">>, <<"m","a","y">>, <<"j","u","n">>,
       <<"j","u","l">>, <<"a","u","g">>, <<"s","e","p">>, <<"o","c","t">>, <<"n","o","v">>, <<"d","e","c">> >>

DayAbbr == << <<"m","o","n">>, <<"t","u","e">>, <<"w","e","d">>, <<"t","h","u">>, <<"f","r","i">>, <<"s","a","t">>, <<"s","u","n">> >>

\* The position of word in the table, 0 when it is not one of its entries
IndexIn(table, word) ==
    IF \E k \in 1..Len(table) : table[k] = word
    THEN CHOOSE k \in 1..Len(table) : table[k] = word
    ELSE 0

IsLeap(year) == year % 4 = 0 /\ (year % 100 # 0 \/ year % 400 = 0)

DaysInMonth(year, month) ==
    IF month = 2 THEN (IF IsLeap(year) THEN 29 ELSE 28)
    ELSE IF month \in {4, 6, 9, 11} THEN 30
    ELSE 31

RECURSIVE Pow10(_)
Pow10(n) == IF n = 0 THEN 1 ELSE 10 * Pow10(n - 1)

\* What strptime has before it reads a directive: 1900-01-01 00:00:00, naive.
\* tz is << >> for a datetime without tzinfo (naive) and the UTC offset in
\* minutes, wrapped in a sequence, for an aware one.
FieldDefaults ==
    [year |-> 1900, month |-> 1, day |-> 1, hour |-> 0, minute |-> 0,
     second |-> 0, microsecond |-> 0, tz |-> <<>>, ok |-> TRUE, next |-> 1]

Bad(f) == [f EXCEPT !.ok = FALSE]

\* One directive or literal of the format, read at s[f.next].
ReadToken(s, f, tok) ==
    LET i == f.next
    IN  CASE tok = "%Y" ->
               LET v == Num(s, i, 4)
               IN  IF v < 0 THEN Bad(f)
                   ELSE [f EXCEPT !.year = v, !.next = i + 4]
          [] tok = "%m" ->
               LET v == Num(s, i, 2)
               IN  IF v < 1 \/ v > 12 THEN Bad(f)
                   ELSE [f EXCEPT !.month = v, !.next = i + 2]
          [] tok = "%d" ->
               LET v == Num(s, i, 2)
               IN  IF v < 1 \/ v > 31 THEN Bad(f)
                   ELSE [f EXCEPT !.day = v, !.next = i + 2]
          [] tok = "%H" ->
               LET v == Num(s, i, 2)
               IN  IF v < 0 \/ v > 23 THEN Bad(f)
                   ELSE [f EXCEPT !.hour = v, !.next = i + 2]
          [] tok = "%M" ->
               LET v == Num(s, i, 2)
               IN  IF v < 0 \/ v > 59 THEN Bad(f)
                   ELSE [f EXCEPT !.minute = v, !.next = i + 2]
          [] tok = "%S" ->
               LET v == Num(s, i, 2)
               IN  IF v < 0 \/ v > 61 THEN Bad(f)
                   ELSE [f EXCEPT !.second = v, !.next = i + 2]
          [] tok = "%f" ->
               LET j == RunEnd(s, i, Digit)
                   n == IF j - i > 6 THEN 6 ELSE j - i
               IN  IF n < 1 THEN Bad(f)
                   ELSE [f EXCEPT !.microsecond = Num(s, i, n) * Pow10(6 - n),
                                  !.next = i + n]
          [] tok = "%b" ->
               LET k == IF i + 2 <= Len(s)
                        THEN IndexIn(MonthAbbr, lower(SubSeq(s, i, i + 2)))
                        ELSE 0
               IN  IF k = 0 THEN Bad(f)
                   ELSE [f EXCEPT !.month = k, !.next = i + 3]
          [] tok = "%a" ->
               LET k == IF i + 2 <= Len(s)
                        THEN IndexIn(DayAbbr, lower(SubSeq(s, i, i + 2)))
                        ELSE 0
               IN  IF k = 0 THEN Bad(f) ELSE [f EXCEPT !.next = i + 3]
          [] tok = "%z" ->
               LET hh == Num(s, i + 1, 2)
                   mm == Num(s, i + 4, 2)
               IN  IF \/ i + 5 > Len(s)
                      \/ s[i] \notin {"+", "-"}
                      \/ s[i + 3] # ":"
                      \/ hh < 0
                      \/ mm < 0 \/ mm > 59
                   THEN Bad(f)
                   ELSE [f EXCEPT
                           !.tz = << (IF s[i] = "-" THEN -1 ELSE 1)
                                     * (60 * hh + mm) >>,
                           !.next = i + 6]
          [] tok = "%s" -> Bad(f)       \* "'s' is a bad directive in format"
          [] OTHER ->
               IF i <= Len(s) /\ s[i] = tok
               THEN [f EXCEPT !.next = i + 1]
               ELSE Bad(f)

RECURSIVE ReadFormat(_, _, _, _)
ReadFormat(s, f, format, k) ==
    IF ~f.ok \/ k > Len(format) THEN f
    ELSE ReadFormat(s, ReadToken(s, f, format[k]), format, k + 1)

\* The value strptime raises ValueError as
ValueError == [tag |-> "ValueError"]

\* The value of a Python None
None == [tag |-> "None"]

\* The datetime of the fields f read from a string of n characters, or
\* ValueError when the format did not match, text is left over or a field is
\* out of range.
FromFields(f, n) ==
    IF \/ ~f.ok
       \/ f.next # n + 1
       \/ f.year < 1
       \/ f.day > DaysInMonth(f.year, f.month)
       \/ f.second > 59
       \/ (f.tz # <<>> /\ (f.tz[1] >= 24 * 60 \/ f.tz[1] <= -(24 * 60)))
    THEN ValueError
    ELSE [tag |-> "datetime", year |-> f.year, month |-> f.month,
          day |-> f.day, hour |-> f.hour, minute |-> f.minute,
          second |-> f.second, microsecond |-> f.microsecond,
          tz |-> f.tz]

\* datetime.strptime(s, format)
strptime(s, format) ==
    FromFields(ReadFormat(s, FieldDefaults, format, 1), Len(s))

(***************************************************************************)
(* LogFileManager.extract_date                                             *)
(***************************************************************************)
\* What one round of the loop of extract_date has after its try: None when
\* the pattern matched nowhere, else what strptime made of group 1.
ParseMatch(match, format) ==
    IF match = <<>> THEN None ELSE strptime(match, format)

\* ReturnOrContinue giving up (return None) when strptime raises ValueError
ReturnOrContinue_gives_up(parsed, rest) ==
    IF parsed.tag = "datetime" THEN parsed
    ELSE IF parsed.tag = "ValueError" THEN None
    ELSE rest

\* One round of the loop: return the parsed datetime, or go on (continue)
\* with the rest of the table.
ReturnOrContinue(parsed, rest) ==
    IF parsed.tag = "datetime" THEN parsed ELSE rest

\* The loop of extract_date from entry p of the table on.
RECURSIVE ExtractFrom(_, _, _)
ExtractFrom(line, patterns, p) ==
    IF p > Len(patterns) THEN None
    ELSE ReturnOrContinue(
             ParseMatch(re_search(patterns[p].regex, line),
                        patterns[p].format),
             ExtractFrom(line, patterns, p + 1))

extract_date(line) == ExtractFrom(line, datetime_patterns, 1)

\* a < b for two naive datetimes
RECURSIVE SeqLess(_, _)
SeqLess(a, b) ==
    IF a = <<>> THEN FALSE
    ELSE IF Head(a) # Head(b) THEN Head(a) < Head(b)
    ELSE SeqLess(Tail(a), Tail(b))

DateKey(d) ==
    << d.year, d.month, d.day, d.hour, d.minute, d.second, d.microsecond >>

\* Whether comparing two datetimes raises TypeError ("can't compare
\* offset-naive and offset-aware datetimes")
CompareRaises(a, b) == (a.tz = <<>>) # (b.tz = <<>>)

\* a >= b for two datetimes that can be compared; the cutoff is naive
datetime_ge(a, b) == ~SeqLess(DateKey(a), DateKey(b))

(***************************************************************************)
(* Files.  A path is its directory (a sequence of names), its stem and its *)
(* extension.  A file's content is a sequence of physical lines, each the  *)
(* text of the line and its terminator as found on disk; only the last     *)
(* line may have none.                                                     *)
(***************************************************************************)
ASSETS_DIR_NAME == "lc-cleaned-assets"

Path(dir, name, ext) == [dir |-> dir, name |-> name, ext |-> ext]

\* os.path.splitext(file_path)[1]
splitext(file_path) == file_path.ext

PhysLine(text, nl) == [text |-> text, nl |-> nl]

\* The platform's os.linesep (POSIX), which text-mode writing puts in place
\* of every "\n"
linesep == "\n"

\* file.readlines() of a file opened in text mode with the default
\* newline=None: "\r\n" and "\r" are read as "\n".
readlines(content) ==
    [i \in 1..Len(content) |->
        IF content[i].nl = "" THEN content[i].text
        ELSE content[i].text \o << "\n" >>]

\* ''.join(lines)
RECURSIVE Flatten(_)
Flatten(lines) ==
    IF lines = <<>> THEN <<>> ELSE Head(lines) \o Flatten(Tail(lines))

\* The physical lines of the characters a text-mode file receives: each "\n"
\* ends a line and is stored as os.linesep; cur is the line being built.
RECURSIVE SplitPhysical(_, _)
SplitPhysical(chars, cur) ==
    IF chars = <<>>
    THEN (IF cur = <<>> THEN <<>> ELSE << PhysLine(cur, "") >>)
    ELSE IF Head(chars) = "\n"
    THEN << PhysLine(cur, linesep) >> \o SplitPhysical(Tail(chars), <<>>)
    ELSE SplitPhysical(Tail(chars), Append(cur, Head(chars)))

\* The content of a file after open(path, 'w') and file.writelines(lines)
writelines(lines) == SplitPhysical(Flatten(lines), <<>>)

(***************************************************************************)
(* Bounds and inputs.                                                      *)
(***************************************************************************)
\* The most lines the files of one run hold together
MaxLines == 2

\* The most entries of source_path or log_files
MaxQueue == 2

CodeLinePool ==
    { <<>>,
      <<" "," ">>,
      <<"#"," ","l","o","g","g","i","n","g",".","i","n","f","o","(","'","t","e","s","t","'",")">>,
      <<"c","o","n","s","o","l","e",".","l","o","g","(","'","t","e","s","t","'",")",";">>,
      <<"v","a","l","i","d"," ","c","o","d","e",";">>,
      <<"i","m","p","o","r","t"," ","l","o","g","g","i","n","g">>,
      <<"l","o","g","g","e","r",".","i","n","f","o","(","'","t","e","s","t","'",")">> }

LogLinePool ==
    { <<>>,
      <<" "," "," ">>,
      <<"n","o"," ","t","i","m","e","s","t","a","m","p">>,
      <<"2","0","2","4","-","0","2","-","1","5"," ","1","0",":","3","0",":","4","5"," ","I","N","F","O"," ","T","e","s","t">>,
      <<"[","F","e","b"," ","1","5"," ","1","0",":","3","0",":","4","5"," ","2","0","2","4","]"," ","T","e","s","t">>,
      <<"1","6","4","4","9","1","5","0","4","5"," ","S","t","a","r","t","e","d">>,
      <<"2","0","2","4","-","0","2","-","3","0","T","0","0",":","0","0",":","0","0"," ","2","0","2","4","-","0","2","-","1","5","T","1","0",":","3","0",":","4","5","+","0","1",":","0","0">> }

CodePaths ==
    { Path(<< "proj" >>, "app", ".js"),
      Path(<< "proj", "sub" >>, "util", ".py"),
      Path(<< "proj", ASSETS_DIR_NAME >>, "old", ".tsx"),
      Path(<< "proj" >>, "notes", ".PY") }

LogPaths ==
    { Path(<< "var", "log" >>, "app", ".log"),
      Path(<< "var", "log" >>, "server", ".log") }

Paths == CodePaths \cup LogPaths

\* The line terminators of a file on disk
Terminators == {"\n", "\r\n", "\r"}

datetime(y, mo, d, h, mi, s) ==
    [tag |-> "datetime", year |-> y, month |-> mo, day |-> d, hour |-> h,
     minute |-> mi, second |-> s, microsecond |-> 0, tz |-> <<>>]

\* Cutoff instants: datetime.now() - timedelta(days=days), a naive datetime
Cutoffs ==
    { datetime(2024, 2, 14, 0, 0, 0),
      datetime(2024, 2, 15, 9, 0, 0),
      datetime(2024, 2, 15, 10, 30, 45),
      datetime(2024, 2, 16, 0, 0, 0) }

\* All sequences over S of length at most n
SeqsUpTo(S, n) == { <<>> } \cup UNION { [1..k -> S] : k \in 1..n }

\* A file of the given texts, every line ended by nl but, without eof_newline,
\* the last
FileOf(texts, nl, eof_newline) ==
    [i \in 1..Len(texts) |->
        PhysLine(texts[i], IF i = Len(texts) /\ ~eof_newline THEN "" ELSE nl)]

\* A file whose last line has no terminator does not end with an empty line
WellFormed(texts, eof_newline) ==
    IF eof_newline \/ Len(texts) = 0 THEN TRUE ELSE Len(texts[Len(texts)]) > 0

RECURSIVE TotalLines(_, _)
TotalLines(files, S) ==
    IF S = {} THEN 0
    ELSE LET p == CHOOSE q \in S : TRUE
         IN  Len(files[p]) + TotalLines(files, S \ {p})

\* The set of the elements of a sequence
Range(q) == { q[i] : i \in 1..Len(q) }

\* The extensions should_remove_line tells apart, and two it does not
FileTypes == CStyleTypes \cup PythonTypes \cup {".PY", ".log"}

(***************************************************************************)
(* State.                                                                  *)
(***************************************************************************)
VARIABLES
    mode,                \* "code": main runs process_files;
                         \* "logs": it runs clean_logs_before_date
    fs,                  \* the file system: path -> content
    source_path,         \* LogCleaner.source_path, a list of files
    should_backup,       \* LogCleaner.should_backup
    current_backup_dir,  \* whether LogCleaner.current_backup_dir is set
    backups,             \* the files under current_backup_dir:
                         \* relative path -> content
    stats,               \* LogCleaner.stats
    log_files,           \* the files given to clean_logs_before_date
    cutoff_date,         \* its cutoff
    files_cleaned,       \* its two counters
    total_lines_removed,
    idx,                 \* the position of the loop over the files
    pc,                  \* where the handler of the current file stands
    rls,                 \* the locals of remove_logging_statements and
                         \* the history of the statistics it started from
    clean,               \* the locals of one round of clean_logs_before_date
                         \* and the history of its log_date
    ui,                  \* what ConsoleUI has printed, in order
    completed,           \* history: the files a call of
                         \* remove_logging_statements returned from normally
    classify,            \* a line, a file type and what should_remove_line
                         \* and get_statement_type return for them
    sniff,               \* a file and what is_log_file returns for it
    walk,                \* a directory tree and what get_log_files and
                         \* process_directory do with it
    cron,                \* the crontab of the user, the CronTab object of
                         \* LogFileManager and what was done with them
    signals,             \* a GracefulExit object, the process it lives in
                         \* and the signals delivered to it
    session,             \* the prompts of initialize_session and the
                         \* selections of LogCleaner they lead to
    backing              \* a project given as a directory or as files, and
                         \* the backups make_backup stores for it

vars ==
    << mode, fs, source_path, should_backup, current_backup_dir, backups,
       stats, log_files, cutoff_date, files_cleaned, total_lines_removed,
       idx, pc, rls, clean, ui, completed, classify, sniff, walk, cron,
       signals, session, backing >>

\* The value of a variable in a run that does not use it
Unused == [tag |-> "unused"]

\* The variables of process_files and clean_logs_before_date
engine ==
    << mode, fs, source_path, should_backup, current_backup_dir, backups,
       stats, log_files, cutoff_date, files_cleaned, total_lines_removed,
       idx, pc, rls, clean, ui, completed >>

\* LogCleaner.__init__: the statistics of a new session
InitialStats ==
    [files_processed |-> 0,
     lines_removed |-> 0,
     removed_statements |-> <<>>,
     file_types_processed |-> <<>>]

\* The locals of remove_logging_statements before the file is read.
\* backup_path is "unassigned" until make_backup has returned. entry_stats is
\* history: self.stats as the call found it.
NoRls ==
    [file_path |-> None, file_type |-> "", lines |-> <<>>,
     removed_lines |-> <<>>, cleaned_lines |-> <<>>,
     file_modified |-> FALSE, backup_path |-> [tag |-> "unassigned"],
     entry_stats |-> InitialStats]

\* The locals of clean_logs_before_date at the start of a round of its loop
\* over the files. log_dates is history: the value of log_date in each round
\* of the loop over the lines so far, NotAsked where extract_date was not
\* called.
NoClean ==
    [log_file |-> None, lines |-> <<>>, new_lines |-> <<>>,
     lines_removed |-> 0, modified |-> FALSE, log_dates |-> <<>>]

\* A LogCleaner that main has constructed and not yet asked to process files
\* or clean logs
NoRun ==
    /\ mode = "none"
    /\ fs = [p \in Paths |-> <<>>]
    /\ source_path = <<>>
    /\ log_files = <<>>
    /\ should_backup = FALSE
    /\ current_backup_dir = FALSE
    /\ cutoff_date = None
    /\ backups = <<>>
    /\ stats = InitialStats
    /\ files_cleaned = 0
    /\ total_lines_removed = 0
    /\ idx = 1
    /\ pc = "next"
    /\ rls = NoRls
    /\ clean = NoClean
    /\ ui = <<>>
    /\ completed = {}

\* The files of a run: those of the queue hold up to MaxLines lines together,
\* in one terminator style; every other file is empty. source_path is the
\* list _get_file_list has read, in which a file may be named twice;
\* log_files is what get_log_files has found, each file once. should_backup
\* is the answer _setup_assets_and_backup got, which then sets
\* current_backup_dir, or the field as a caller of process_files has set it
\* without create_backup_directory.
Init ==
    /\ mode \in {"code", "logs"}
    /\ \E queue \in SeqsUpTo(IF mode = "code" THEN CodePaths ELSE LogPaths,
                             MaxQueue) \ { <<>> } :
       \E nl \in Terminators, eof_newline \in BOOLEAN :
       \E texts \in [Range(queue) ->
                       SeqsUpTo(IF mode = "code" THEN CodeLinePool
                                ELSE LogLinePool, MaxLines)] :
          /\ mode = "logs" => Cardinality(Range(queue)) = Len(queue)
          /\ TotalLines(texts, Range(queue)) <= MaxLines
          /\ \A p \in Range(queue) : WellFormed(texts[p], eof_newline)
          /\ fs = [p \in Paths |->
                     IF p \in Range(queue)
                     THEN FileOf(texts[p], nl, eof_newline)
                     ELSE <<>>]
          /\ source_path = IF mode = "code" THEN queue ELSE <<>>
          /\ log_files = IF mode = "logs" THEN queue ELSE <<>>
    /\ should_backup \in (IF mode = "code" THEN BOOLEAN ELSE {FALSE})
    /\ current_backup_dir \in (IF should_backup THEN BOOLEAN ELSE {FALSE})
    /\ cutoff_date \in (IF mode = "logs" THEN Cutoffs ELSE {None})
    /\ backups = <<>>
    /\ stats = InitialStats
    /\ files_cleaned = 0
    /\ total_lines_removed = 0
    /\ idx = 1
    /\ pc = "next"
    /\ rls = NoRls
    /\ clean = NoClean
    /\ ui = <<>>
    /\ completed = {}
    /\ classify = Unused
    /\ sniff = Unused
    /\ walk = Unused
    /\ cron = Unused
    /\ signals = Unused
    /\ session = Unused
    /\ backing = Unused

(***************************************************************************)
(* LogCleaner.remove_logging_statements and what it calls.                 *)
(***************************************************************************)
\* Increment storing 1 whatever the dictionary held for the key
Increment_forgets(dict, key) ==
    (key :> 1) @@ dict

\* dict[key] = dict.get(key, 0) + 1
Increment(dict, key) ==
    IF key \in DOMAIN dict
    THEN [dict EXCEPT ![key] = @ + 1]
    ELSE dict @@ (key :> 1)

\* ScanLine with the else of the loop body lost: a removed line is recorded
\* and written back all the same.
ScanLine_keeps_removed(acc, line_num, line, file_type) ==
    IF should_remove_line(line, file_type)
    THEN LET statement_type == get_statement_type(line, file_type)
         IN  [acc EXCEPT
                !.stats.removed_statements = Increment(@, statement_type),
                !.removed_lines = Append(@, << line_num, strip(line) >>),
                !.stats.lines_removed = @ + 1,
                !.file_modified = TRUE,
                !.cleaned_lines = Append(@, line)]
    ELSE [acc EXCEPT !.cleaned_lines = Append(@, line)]

\* ScanLine with blank lines squeezed out of the output
ScanLine_skips_blank(acc, line_num, line, file_type) ==
    IF strip(line) = <<>>
    THEN [acc EXCEPT !.file_modified = TRUE]
    ELSE IF should_remove_line(line, file_type)
    THEN LET statement_type == get_statement_type(line, file_type)
         IN  [acc EXCEPT
                !.stats.removed_statements = Increment(@, statement_type),
                !.removed_lines = Append(@, << line_num, strip(line) >>),
                !.stats.lines_removed = @ + 1,
                !.file_modified = TRUE]
    ELSE [acc EXCEPT !.cleaned_lines = Append(@, line)]

\* One round of the loop over the lines. acc holds self.stats and the locals
\* removed_lines, cleaned_lines and file_modified.
ScanLine(acc, line_num, line, file_type) ==
    IF should_remove_line(line, file_type)
    THEN LET statement_type == get_statement_type(line, file_type)
         IN  [acc EXCEPT
                !.stats.removed_statements = Increment(@, statement_type),
                !.removed_lines = Append(@, << line_num, strip(line) >>),
                !.stats.lines_removed = @ + 1,
                !.file_modified = TRUE]
    ELSE [acc EXCEPT !.cleaned_lines = Append(@, line)]

\* for line_num, line in enumerate(lines, 1), from line_num on
RECURSIVE ScanLoop(_, _, _, _)
ScanLoop(acc, lines, line_num, file_type) ==
    IF line_num > Len(lines) THEN acc
    ELSE ScanLoop(ScanLine(acc, line_num, lines[line_num], file_type),
                  lines, line_num + 1, file_type)

\* AfterScan without the call of make_backup
AfterScan_skips_backup(file_modified) ==
    IF file_modified THEN "write" ELSE "next"

\* Where remove_logging_statements goes after the loop: to make_backup, to
\* the overwriting of the file, or back to its caller.
AfterScan(file_modified) ==
    IF file_modified
    THEN (IF should_backup THEN "backup" ELSE "write")
    ELSE "next"

\* The longest common prefix of two sequences
RECURSIVE CommonPrefix(_, _)
CommonPrefix(a, b) ==
    IF a = <<>> \/ b = <<>> \/ Head(a) # Head(b) THEN <<>>
    ELSE << Head(a) >> \o CommonPrefix(Tail(a), Tail(b))

\* os.path.commonpath([str(Path(p).parent) for p in files[k..]])
RECURSIVE commonpath(_, _)
commonpath(files, k) ==
    IF k = Len(files) THEN files[k].dir
    ELSE CommonPrefix(files[k].dir, commonpath(files, k + 1))

\* LogCleaner.get_assets_directory for a list of files
get_assets_directory(files) == Append(commonpath(files, 1), ASSETS_DIR_NAME)

\* What _setup_assets_and_backup sets self.assets_dir to
assets_dir == get_assets_directory(source_path)

\* Whether Path.relative_to(base) succeeds for a file in directory dir
IsUnder(dir, base) ==
    Len(base) <= Len(dir) /\ SubSeq(dir, 1, Len(base)) = base

\* LogCleaner.should_backup_file
should_backup_file(file_path) == ~IsUnder(file_path.dir, assets_dir)

AttributeError == [tag |-> "AttributeError"]

\* LogCleaner.make_backup up to its copy: None when it returns without
\* copying, AttributeError when self.current_backup_dir was never set, else
\* the path of the backup relative to current_backup_dir.
make_backup(file_path) ==
    IF ~should_backup THEN None
    ELSE IF ~current_backup_dir THEN AttributeError
    ELSE IF ~should_backup_file(file_path) THEN None
    ELSE LET source_base == commonpath(source_path, 1)
         IN  [tag |-> "path",
              dir |-> SubSeq(file_path.dir, Len(source_base) + 1,
                             Len(file_path.dir)),
              name |-> file_path.name,
              ext |-> file_path.ext]

\* WriteBack writing the lines as they were read instead of the lines kept
WriteBack_original(path, lines) ==
    fs' = [fs EXCEPT ![path] = writelines(rls.lines)]

\* with open(path, 'w', encoding='utf-8') as file: file.writelines(lines)
WriteBack(path, lines) ==
    fs' = [fs EXCEPT ![path] = writelines(lines)]

\* except Exception as e: self.ui.print_error(...); process_files goes on
\* with the next file
Except(file_path) ==
    /\ ui' = Append(ui, [kind |-> "error", file |-> file_path])
    /\ idx' = idx + 1
    /\ pc' = "next"

\* with open(file_path, 'r') as file: lines = file.readlines(), which raises
\* when the file cannot be opened or decoded
RlsRead ==
    /\ mode = "code"
    /\ pc = "next"
    /\ idx <= Len(source_path)
    /\ LET file_path == source_path[idx]
           entered == [NoRls EXCEPT !.file_path = file_path,
                                    !.file_type = splitext(file_path),
                                    !.entry_stats = stats]
       IN  \/ /\ rls' = [entered EXCEPT !.lines = readlines(fs[file_path])]
              /\ pc' = "scan"
              /\ UNCHANGED << idx, ui >>
           \/ /\ rls' = entered
              /\ Except(file_path)
    /\ UNCHANGED << classify, sniff, walk >>
    /\ UNCHANGED << cron, signals, session, backing >>
    /\ UNCHANGED << mode, fs, source_path, should_backup, current_backup_dir,
                    backups, stats, log_files, cutoff_date, files_cleaned,
                    total_lines_removed, clean, completed >>

\* The state after the loop over the lines has left the statistics and
\* locals acc
AfterScanLoop(acc) ==
    /\ stats' = acc.stats
    /\ rls' = [rls EXCEPT !.removed_lines = acc.removed_lines,
                          !.cleaned_lines = acc.cleaned_lines,
                          !.file_modified = acc.file_modified]
    /\ pc' = AfterScan(acc.file_modified)
    /\ IF pc' = "next"
       THEN idx' = idx + 1 /\ completed' = completed \cup {rls.file_path}
       ELSE UNCHANGED << idx, completed >>

\* The loop over the lines and the test of file_modified
RlsScan ==
    /\ mode = "code"
    /\ pc = "scan"
    /\ AfterScanLoop(ScanLoop([stats |-> stats, removed_lines |-> <<>>,
                               cleaned_lines |-> <<>>,
                               file_modified |-> FALSE],
                              rls.lines, 1, rls.file_type))
    /\ UNCHANGED << classify, sniff, walk >>
    /\ UNCHANGED << cron, signals, session, backing >>
    /\ UNCHANGED << mode, fs, source_path, should_backup, current_backup_dir,
                    backups, log_files, cutoff_date, files_cleaned,
                    total_lines_removed, clean, ui >>

\* backup_path = self.make_backup(file_path); mkdir and shutil.copy2 raise
\* when the disk refuses
RlsBackup ==
    /\ mode = "code"
    /\ pc = "backup"
    /\ LET backup_path == make_backup(rls.file_path)
       IN  \/ /\ backup_path = AttributeError
              /\ Except(rls.file_path)
              /\ UNCHANGED << rls, backups >>
           \/ /\ backup_path = None
              /\ rls' = [rls EXCEPT !.backup_path = None]
              /\ pc' = "write"
              /\ UNCHANGED << idx, ui, backups >>
           \/ /\ backup_path.tag = "path"
              /\ backups' = [p \in DOMAIN backups \cup {backup_path} |->
                               IF p = backup_path THEN fs[rls.file_path]
                               ELSE backups[p]]
              /\ rls' = [rls EXCEPT !.backup_path = backup_path]
              /\ pc' = "write"
              /\ UNCHANGED << idx, ui >>
           \/ /\ backup_path.tag = "path"
              /\ Except(rls.file_path)
              /\ UNCHANGED << rls, backups >>
    /\ UNCHANGED << classify, sniff, walk >>
    /\ UNCHANGED << cron, signals, session, backing >>
    /\ UNCHANGED << mode, fs, source_path, should_backup, current_backup_dir,
                    stats, log_files, cutoff_date, files_cleaned,
                    total_lines_removed, clean, completed >>

\* with open(file_path, 'w') as file: file.writelines(cleaned_lines), then
\* the counting of the file. open raises and leaves the file alone, or it
\* truncates the file and the writing stops after some of the lines, or all
\* lines are written.
RlsWrite ==
    /\ mode = "code"
    /\ pc = "write"
    /\ \/ /\ Except(rls.file_path)
          /\ UNCHANGED << fs, stats, completed >>
       \/ /\ \E k \in 0..(Len(rls.cleaned_lines) - 1) :
                WriteBack(rls.file_path, SubSeq(rls.cleaned_lines, 1, k))
          /\ Except(rls.file_path)
          /\ UNCHANGED << stats, completed >>
       \/ /\ WriteBack(rls.file_path, rls.cleaned_lines)
          /\ stats' = [stats EXCEPT
                         !.files_processed = @ + 1,
                         !.file_types_processed = Increment(@, rls.file_type)]
          /\ ui' = Append(ui, [kind |-> "success", file |-> rls.file_path,
                               removed |-> Len(rls.removed_lines)])
          /\ completed' = completed \cup {rls.file_path}
          /\ idx' = idx + 1
          /\ pc' = "next"
    /\ UNCHANGED << classify, sniff, walk >>
    /\ UNCHANGED << cron, signals, session, backing >>
    /\ UNCHANGED << mode, source_path, should_backup, current_backup_dir,
                    backups, log_files, cutoff_date, files_cleaned,
                    total_lines_removed, rls, clean >>

(***************************************************************************)
(* LogFileManager.clean_logs_before_date                                   *)
(***************************************************************************)
\* The entry of clean.log_dates for a blank line
NotAsked == [tag |-> "NotAsked"]

\* Decide with a line that has no date marking the file as modified
Decide_marks_undated(acc, line, log_date, cutoff) ==
    IF log_date = None
    THEN [acc EXCEPT !.new_lines = Append(@, line),
                     !.modified = TRUE,
                     !.log_dates = Append(@, log_date)]
    ELSE IF CompareRaises(log_date, cutoff)
    THEN [acc EXCEPT !.raised = TRUE,
                     !.log_dates = Append(@, log_date)]
    ELSE IF datetime_ge(log_date, cutoff)
    THEN [acc EXCEPT !.new_lines = Append(@, line),
                     !.log_dates = Append(@, log_date)]
    ELSE [acc EXCEPT !.lines_removed = @ + 1,
                     !.modified = TRUE,
                     !.log_dates = Append(@, log_date)]

\* What the loop does with a line that is not blank, once extract_date has
\* returned log_date.
Decide(acc, line, log_date, cutoff) ==
    IF log_date = None
    THEN [acc EXCEPT !.new_lines = Append(@, line),
                     !.log_dates = Append(@, log_date)]
    ELSE IF CompareRaises(log_date, cutoff)
    THEN [acc EXCEPT !.raised = TRUE,
                     !.log_dates = Append(@, log_date)]
    ELSE IF datetime_ge(log_date, cutoff)
    THEN [acc EXCEPT !.new_lines = Append(@, line),
                     !.log_dates = Append(@, log_date)]
    ELSE [acc EXCEPT !.lines_removed = @ + 1,
                     !.modified = TRUE,
                     !.log_dates = Append(@, log_date)]

\* One round of the loop over the lines. acc holds the locals new_lines,
\* lines_removed and modified, the history log_dates, and raised: whether
\* log_date >= cutoff_date has raised TypeError, which ends the loop.
CleanLine(acc, line, cutoff) ==
    IF acc.raised THEN acc
    ELSE IF strip(line) = <<>>
    THEN [acc EXCEPT !.new_lines = Append(@, line),
                     !.log_dates = Append(@, NotAsked)]
    ELSE Decide(acc, line, extract_date(line), cutoff)

\* for line in lines, from the k-th line on
RECURSIVE CleanLoop(_, _, _, _)
CleanLoop(acc, lines, k, cutoff) ==
    IF k > Len(lines) THEN acc
    ELSE CleanLoop(CleanLine(acc, lines[k], cutoff), lines, k + 1, cutoff)

\* CleanExcept leaving the loop over the files: break in place of continue
CleanExcept_stops(log_file) ==
    /\ ui' = Append(ui, [kind |-> "error", file |-> log_file])
    /\ idx' = Len(log_files) + 1
    /\ pc' = "next"

\* except Exception as e: self.ui.print_error(...); continue
CleanExcept(log_file) ==
    /\ ui' = Append(ui, [kind |-> "error", file |-> log_file])
    /\ idx' = idx + 1
    /\ pc' = "next"

\* self.ui.print_info("Processing ..."), then open(log_file, 'r') and
\* f.readlines(), which raise when the file cannot be opened or decoded
CleanRead ==
    /\ mode = "logs"
    /\ pc = "next"
    /\ idx <= Len(log_files)
    /\ LET log_file == log_files[idx]
           entered == [NoClean EXCEPT !.log_file = log_file]
           announced == Append(ui, [kind |-> "info", file |-> log_file])
       IN  \/ /\ clean' = [entered EXCEPT !.lines = readlines(fs[log_file])]
              /\ ui' = announced
              /\ pc' = "clean_scan"
              /\ UNCHANGED idx
           \/ /\ clean' = entered
              /\ ui' = Append(announced, [kind |-> "error", file |-> log_file])
              /\ idx' = idx + 1
              /\ pc' = "next"
    /\ UNCHANGED << classify, sniff, walk >>
    /\ UNCHANGED << cron, signals, session, backing >>
    /\ UNCHANGED << mode, fs, source_path, should_backup, current_backup_dir,
                    backups, stats, log_files, cutoff_date, files_cleaned,
                    total_lines_removed, rls, completed >>

\* The state after the loop over the lines has left the locals acc
AfterCleanLoop(acc) ==
    /\ clean' = [clean EXCEPT !.new_lines = acc.new_lines,
                              !.lines_removed = acc.lines_removed,
                              !.modified = acc.modified,
                              !.log_dates = acc.log_dates]
    /\ IF acc.raised
       THEN CleanExcept(clean.log_file)
       ELSE IF acc.modified
       THEN pc' = "clean_write" /\ UNCHANGED << idx, ui >>
       ELSE /\ ui' = Append(ui, [kind |-> "info", file |-> clean.log_file])
            /\ idx' = idx + 1
            /\ pc' = "next"

\* The loop over the lines and the test of modified
CleanScan ==
    /\ mode = "logs"
    /\ pc = "clean_scan"
    /\ AfterCleanLoop(CleanLoop([new_lines |-> <<>>, lines_removed |-> 0,
                                 modified |-> FALSE, log_dates |-> <<>>,
                                 raised |-> FALSE],
                                clean.lines, 1, cutoff_date))
    /\ UNCHANGED << classify, sniff, walk >>
    /\ UNCHANGED << cron, signals, session, backing >>
    /\ UNCHANGED << mode, fs, source_path, should_backup, current_backup_dir,
                    backups, stats, log_files, cutoff_date, files_cleaned,
                    total_lines_removed, rls, completed >>

\* with open(log_file, 'w') as f: f.writelines(new_lines), then the counting
\* of the file. open raises and leaves the file alone, or it truncates the
\* file and the writing stops after some of the lines, or all lines are
\* written.
CleanWrite ==
    /\ mode = "logs"
    /\ pc = "clean_write"
    /\ \/ /\ CleanExcept(clean.log_file)
          /\ UNCHANGED << fs, files_cleaned, total_lines_removed >>
       \/ /\ \E k \in 0..(Len(clean.new_lines) - 1) :
                WriteBack(clean.log_file, SubSeq(clean.new_lines, 1, k))
          /\ CleanExcept(clean.log_file)
          /\ UNCHANGED << files_cleaned, total_lines_removed >>
       \/ /\ WriteBack(clean.log_file, clean.new_lines)
          /\ files_cleaned' = files_cleaned + 1
          /\ total_lines_removed' = total_lines_removed + clean.lines_removed
          /\ ui' = Append(ui, [kind |-> "success", file |-> clean.log_file,
                               removed |-> clean.lines_removed])
          /\ idx' = idx + 1
          /\ pc' = "next"
    /\ UNCHANGED << classify, sniff, walk >>
    /\ UNCHANGED << cron, signals, session, backing >>
    /\ UNCHANGED << mode, source_path, should_backup, current_backup_dir,
                    backups, stats, log_files, cutoff_date, rls, clean,
                    completed >>

(***************************************************************************)
(* The two runs: process_files over source_path, and                       *)
(* clean_logs_before_date over log_files.                                  *)
(***************************************************************************)
Next ==
    \/ RlsRead
    \/ RlsScan
    \/ RlsBackup
    \/ RlsWrite
    \/ CleanRead
    \/ CleanScan
    \/ CleanWrite

Spec == Init /\ [][Next]_vars


(***************************************************************************)
(* should_remove_line and get_statement_type as functions of a line and a  *)
(* file type.                                                              *)
(***************************************************************************)
\* The most tokens of a line of JavaScript
MaxCTokens == 5

\* The most tokens of a line of Python
MaxPyTokens == 3

CTokens == { <<"c","o","n","s","o","l","e",".">>, <<"l","o","g">>, <<"x",";">>, <<"(">>, <<")">>, <<" ">> }

PyTokens ==
    { <<"i","m","p","o","r","t"," ","l","o","g","g","i","n","g">>, <<"g","e","t","L","o","g","g","e","r">>, <<"_","l","o","g","g","e","r",".">>, <<"l","o","g","g","e","r",".">>, <<"l","o","g","g","i","n","g",".">>,
      <<"d","e","b","u","g">>, <<"(">>, <<" ">> }

\* The lines of test_get_statement_type_js and test_get_statement_type_python
Fixtures ==
    { <<"c","o","n","s","o","l","e",".","l","o","g","(","\"","t","e","s","t","\"",")",";">>,
      <<"c","o","n","s","o","l","e",".","e","r","r","o","r","(","\"","t","e","s","t","\"",")",";">>,
      <<"n","o","t"," ","a"," ","c","o","n","s","o","l","e"," ","s","t","a","t","e","m","e","n","t">>,
      <<"i","m","p","o","r","t"," ","l","o","g","g","i","n","g">>,
      <<"l","o","g","g","e","r"," ","="," ","l","o","g","g","i","n","g",".","g","e","t","L","o","g","g","e","r","(","_","_","n","a","m","e","_","_",")">>,
      <<"l","o","g","g","e","r",".","i","n","f","o","(","\"","t","e","s","t","\"",")">>,
      <<"l","o","g","g","i","n","g",".","e","r","r","o","r","(","\"","t","e","s","t","\"",")">>,
      <<"_","l","o","g","g","e","r",".","d","e","b","u","g","(","\"","t","e","s","t","\"",")">>,
      <<"n","o","t"," ","a"," ","l","o","g","g","i","n","g"," ","s","t","a","t","e","m","e","n","t">> }

ClassifyLines ==
    { Flatten(t) : t \in SeqsUpTo(CTokens, MaxCTokens) }
      \cup { Flatten(t) : t \in SeqsUpTo(PyTokens, MaxPyTokens) }
      \cup Fixtures

InitClassify ==
    /\ NoRun
    /\ cron = Unused
    /\ signals = Unused
    /\ session = Unused
    /\ backing = Unused
    /\ \E line \in ClassifyLines, file_type \in FileTypes :
          classify = [line |-> line, file_type |-> file_type, called |-> {},
                      removable |-> FALSE, statement_type |-> <<>>]
    /\ sniff = Unused
    /\ walk = Unused

\* self.should_remove_line(line, file_type)
CallShouldRemoveLine ==
    /\ "should_remove_line" \notin classify.called
    /\ classify' =
          [classify EXCEPT
             !.called = @ \cup {"should_remove_line"},
             !.removable = should_remove_line(classify.line,
                                              classify.file_type)]
    /\ UNCHANGED << engine, sniff, walk >>
    /\ UNCHANGED << cron, signals, session, backing >>

\* self.get_statement_type(line, file_type)
CallGetStatementType ==
    /\ "get_statement_type" \notin classify.called
    /\ classify' =
          [classify EXCEPT
             !.called = @ \cup {"get_statement_type"},
             !.statement_type = get_statement_type(classify.line,
                                                   classify.file_type)]
    /\ UNCHANGED << engine, sniff, walk >>
    /\ UNCHANGED << cron, signals, session, backing >>

NextClassify == CallShouldRemoveLine \/ CallGetStatementType

SpecClassify == InitClassify /\ [][NextClassify]_vars

(***************************************************************************)
(* The files LogCleaner accepts.                                           *)
(***************************************************************************)
\* The keys of LogCleaner.SUPPORTED_EXTENSIONS
SUPPORTED_EXTENSIONS == {".js", ".jsx", ".ts", ".tsx", ".py"}

\* str.lower() of an extension, for the extensions of the model that have
\* upper-case letters
suffix_lower(ext) ==
    CASE ext = ".PY" -> ".py"
      [] ext = ".JS" -> ".js"
      [] ext = ".LOG" -> ".log"
      [] OTHER -> ext

\* LogCleaner.validate_file_type
validate_file_type(file_path) ==
    suffix_lower(file_path.ext) \in SUPPORTED_EXTENSIONS

(***************************************************************************)
(* LogFileManager.is_log_file.  A file is its kind ("file", "dir" or       *)
(* "missing"), its name, whether open() succeeds, and its content on disk, *)
(* in which InvalidByte stands for a byte that is not valid UTF-8.         *)
(***************************************************************************)
log_extensions == { <<".","l","o","g">>, <<".","l","o","g","s">>, <<".","e","r","r","o","r">>, <<".","d","e","b","u","g">>, <<".","i","n","f","o">> }

\* PurePath.suffix: the name from its last dot on, when that dot is neither
\* the first nor the last character
suffix(name) ==
    LET dots == { i \in 1..Len(name) : name[i] = "." }
    IN  IF dots = {} THEN <<>>
        ELSE LET last == CHOOSE i \in dots : \A j \in dots : j <= i
             IN  IF 1 < last /\ last < Len(name)
                 THEN SubSeq(name, last, Len(name))
                 ELSE <<>>

\* C+$ at position i of s
RestIn(s, i, C) == i <= Len(s) /\ \A q \in i..Len(s) : s[q] \in C

NumLogPatterns == 4

\* re.search(self.log_patterns[k - 1], file_name) is not None
log_pattern_search(k, file_name) ==
    \E i \in 1..Len(file_name) :
        CASE k = 1 ->
               \* \.log(\.\d+)?$
               /\ LitAt(file_name, i, <<".","l","o","g">>)
               /\ \/ i + 3 = Len(file_name)
                  \/ /\ file_name[i + 4] = "."
                     /\ RestIn(file_name, i + 5, Digit)
          [] k = 2 ->
               \* \.logs$
               LitAt(file_name, i, <<".","l","o","g","s">>) /\ i + 4 = Len(file_name)
          [] k = 3 ->
               \* \.(error|debug|info)$
               \E w \in { <<".","e","r","r","o","r">>, <<".","d","e","b","u","g">>, <<".","i","n","f","o">> } :
                   LitAt(file_name, i, w) /\ i + Len(w) - 1 = Len(file_name)
          [] k = 4 ->
               \* \.log\.[0-9A-Za-z-]+$
               /\ LitAt(file_name, i, <<".","l","o","g",".">>)
               /\ RestIn(file_name, i + 5, Digit \cup Alpha \cup {"-"})

InvalidByte == "0xFF"

\* open(path, 'r', encoding='utf-8', errors='ignore'): the bytes that do not
\* decode are left out
decode_ignore(content) ==
    [i \in 1..Len(content) |->
        LET Valid(c) == c # InvalidByte
        IN  PhysLine(SelectSeq(content[i].text, Valid), content[i].nl)]

\* The lines the loop over range(n) collects: next(f) until StopIteration
head(lines, n) ==
    SubSeq(lines, 1, IF Len(lines) < n THEN Len(lines) ELSE n)

\* any(re.search(pattern, line) for pattern, _ in self.datetime_patterns)
datetime_pattern_search(line) ==
    \E p \in 1..Len(datetime_patterns) :
        re_search(datetime_patterns[p].regex, line) # <<>>

\* is_log_file reading the whole file instead of its first lines
is_log_file_reads_all(file) ==
    IF file.kind # "file" THEN FALSE
    ELSE IF lower(suffix(file.name)) \in log_extensions THEN TRUE
    ELSE IF \E k \in 1..NumLogPatterns :
                log_pattern_search(k, lower(file.name))
    THEN TRUE
    ELSE IF ~file.readable THEN FALSE
    ELSE LET lines == readlines(decode_ignore(file.content))
         IN  \E i \in 1..Len(lines) : datetime_pattern_search(strip(lines[i]))

\* LogFileManager.is_log_file
is_log_file(file) ==
    IF file.kind # "file" THEN FALSE
    ELSE IF lower(suffix(file.name)) \in log_extensions THEN TRUE
    ELSE IF \E k \in 1..NumLogPatterns :
                log_pattern_search(k, lower(file.name))
    THEN TRUE
    ELSE IF ~file.readable THEN FALSE
    ELSE LET lines == head(readlines(decode_ignore(file.content)), 5)
         IN  \E i \in 1..Len(lines) : datetime_pattern_search(strip(lines[i]))

\* The most lines of a file given to is_log_file
MaxSniffLines == 6

SniffNames ==
    { <<"t","e","s","t",".","l","o","g">>, <<"t","e","s","t",".","t","x","t">>, <<"a","p","p",".","l","o","g",".","1">>, <<"a","p","p",".","l","o","g",".","o","l","d">>, <<"d","a","t","a",".","L","O","G">>,
      <<"x",".","e","r","r","o","r">>, <<".","l","o","g">>, <<"n","o","t","e","s",".","l","o","g","s">>, <<"a",".","l","o","g",".","b","_","c">>, <<"a","p","p",".","l","o","g",".">> }

SniffLinePool ==
    { <<"n","o"," ","d","a","t","e">>,
      <<"2","0","2","4","0","2","1","5"," ","b","a","c","k","u","p">>,
      << InvalidByte >> \o <<"j","u","n","k">>,
      << InvalidByte >> \o <<"1","6","4","4","9","1","5","0","4","5">> }

\* What is_log_file may be given: a directory, a path that does not exist,
\* or a regular file, which open() may refuse
SniffFiles ==
    { [kind |-> k, name |-> n, readable |-> FALSE, content |-> <<>>] :
        k \in {"dir", "missing"}, n \in SniffNames }
      \cup
    { [kind |-> "file", name |-> n, readable |-> r,
       content |-> FileOf(texts, "\n", TRUE)] :
        n \in SniffNames, r \in BOOLEAN,
        texts \in SeqsUpTo(SniffLinePool, MaxSniffLines) }

InitSniff ==
    /\ NoRun
    /\ cron = Unused
    /\ signals = Unused
    /\ session = Unused
    /\ backing = Unused
    /\ classify = Unused
    /\ \E file \in SniffFiles :
          sniff = [file |-> file, called |-> FALSE, result |-> FALSE]
    /\ walk = Unused

\* self.log_manager.is_log_file(file_path)
CallIsLogFile ==
    /\ ~sniff.called
    /\ sniff' = [sniff EXCEPT !.called = TRUE,
                              !.result = is_log_file(sniff.file)]
    /\ UNCHANGED << engine, classify, walk >>
    /\ UNCHANGED << cron, signals, session, backing >>

NextSniff == CallIsLogFile

SpecSniff == InitSniff /\ [][NextSniff]_vars

(***************************************************************************)
(* Directory traversal: LogFileManager.get_log_files followed by           *)
(* clean_logs_before_date (main with --clean-logs), and                    *)
(* LogCleaner.process_directory.  A file of the tree is the pair of its    *)
(* directory, relative to the directory walked, and its name.              *)
(***************************************************************************)
\* The most files of a tree
MaxFiles == 2

\* The directory given to get_log_files or process_directory
WalkRoot == <<"p","r","o","j">>

\* ASSETS_DIR_NAME, character by character
AssetsDirName == <<"l","c","-","c","l","e","a","n","e","d","-","a","s","s","e","t","s">>

WalkDirs ==
    { <<>>,
      << <<".","g","i","t">> >>,
      << <<".","g","i","t","h","u","b">> >>,
      << <<"s","u","b">> >>,
      << AssetsDirName, <<"l","o","g","s">> >> }

WalkNames == { <<"a","p","p",".","l","o","g">>, <<"a","p","p",".","j","s">>, <<"n","o","t","e","s",".","t","x","t">> }

WalkLinePool ==
    { <<"c","o","n","s","o","l","e",".","l","o","g","(","'","t","e","s","t","'",")",";">>,
      <<"2","0","2","4","-","0","2","-","1","5"," ","1","0",":","3","0",":","4","5"," ","I","N","F","O"," ","T","e","s","t">>,
      <<"v","a","l","i","d"," ","c","o","d","e",";">> }

WalkPlaces == WalkDirs \X WalkNames

\* The trees of up to MaxFiles files of one line each
Trees ==
    UNION { [S -> { FileOf(<< text >>, "\n", TRUE) : text \in WalkLinePool }] :
              S \in { T \in SUBSET WalkPlaces :
                        Cardinality(T) \in 1..MaxFiles } }

\* os.path.join of the parts of a path
RECURSIVE joinpath(_)
joinpath(parts) ==
    IF Len(parts) = 1 THEN parts[1]
    ELSE parts[1] \o << "/" >> \o joinpath(Tail(parts))

\* str(root_path / file)
str_path(place) == joinpath(<< WalkRoot >> \o place[1] \o << place[2] >>)

\* if '.git' in dirs: dirs.remove('.git'): os.walk does not descend into a
\* directory named .git
Pruned(place) == \E i \in 1..Len(place[1]) : place[1][i] = <<".","g","i","t">>

\* Path(root).is_relative_to(self.assets_dir), with assets_dir the
\* lc-cleaned-assets directory of the directory walked
UnderAssets(place) == Len(place[1]) >= 1 /\ place[1][1] = AssetsDirName

\* The file types should_remove_line and selected_types are compared with,
\* for the extensions of the model
ExtensionText ==
    { << <<".","j","s">>, ".js" >>, << <<".","j","s","x">>, ".jsx" >>, << <<".","t","s">>, ".ts" >>,
      << <<".","t","s","x">>, ".tsx" >>, << <<".","p","y">>, ".py" >>, << <<".","l","o","g">>, ".log" >>,
      << <<".","t","x","t">>, ".txt" >> }

as_file_type(ext) ==
    IF \E e \in ExtensionText : e[1] = ext
    THEN (CHOOSE e \in ExtensionText : e[1] = ext)[2]
    ELSE ""

\* The argument is_log_file gets for a file of the tree
file_at(tree, place) ==
    [kind |-> "file", name |-> place[2], readable |-> TRUE,
     content |-> tree[place]]

\* What a call that rewrites the file only when it dropped a line leaves in
\* the file
RewriteIf(modified, lines, content) ==
    IF modified THEN writelines(lines) ELSE content

\* remove_logging_statements once its loop has left the locals acc
AfterScanOf(acc, content) ==
    RewriteIf(acc.file_modified, acc.cleaned_lines, content)

\* The content remove_logging_statements leaves in a file that can be read
\* and written
remove_logging_statements(content, file_type) ==
    AfterScanOf(ScanLoop([stats |-> InitialStats, removed_lines |-> <<>>,
                          cleaned_lines |-> <<>>, file_modified |-> FALSE],
                         readlines(content), 1, file_type),
                content)

\* One round of clean_logs_before_date once its loop over the lines has left
\* the locals acc
AfterCleanOf(acc, content) ==
    RewriteIf(~acc.raised /\ acc.modified, acc.new_lines, content)

\* The content one round of clean_logs_before_date leaves in a file that can
\* be read and written
clean_log_file(content, cutoff) ==
    AfterCleanOf(CleanLoop([new_lines |-> <<>>, lines_removed |-> 0,
                            modified |-> FALSE, log_dates |-> <<>>,
                            raised |-> FALSE],
                           readlines(content), 1, cutoff),
                 content)

\* datetime.now() - timedelta(days=30) of main
WalkCutoff == datetime(2024, 2, 16, 0, 0, 0)

InitWalk ==
    /\ NoRun
    /\ cron = Unused
    /\ signals = Unused
    /\ session = Unused
    /\ backing = Unused
    /\ classify = Unused
    /\ sniff = Unused
    /\ \E tree \in Trees, m \in {"logs", "code"} :
       \E types \in (IF m = "code"
                     THEN {SUPPORTED_EXTENSIONS, {".js"}, {".py"}} ELSE {{}}) :
          walk = [mode |-> m, tree |-> tree, initial |-> tree,
                  todo |-> DOMAIN tree, selected_types |-> types,
                  log_files |-> <<>>, idx |-> 1, pc |-> "walk",
                  handed |-> <<>>]

\* get_log_files: one round of the loop over the files os.walk yields
GetLogFilesVisit ==
    /\ walk.mode = "logs"
    /\ walk.pc = "walk"
    /\ \E place \in walk.todo :
          /\ ~Pruned(place)
          /\ walk' =
                [walk EXCEPT
                   !.todo = @ \ {place},
                   !.log_files =
                       IF /\ ~Contains(str_path(place), <<".","g","i","t">>)
                          /\ is_log_file(file_at(walk.tree, place))
                       THEN Append(@, place)
                       ELSE @]
    /\ UNCHANGED << engine, classify, sniff >>
    /\ UNCHANGED << cron, signals, session, backing >>

\* get_log_files returns log_files and main hands it to
\* clean_logs_before_date
GetLogFilesReturn ==
    /\ walk.mode = "logs"
    /\ walk.pc = "walk"
    /\ \A place \in walk.todo : Pruned(place)
    /\ walk' = [walk EXCEPT !.pc = "clean"]
    /\ UNCHANGED << engine, classify, sniff >>
    /\ UNCHANGED << cron, signals, session, backing >>

\* clean_logs_before_date: one round of the loop over log_files
CleanLogFile ==
    /\ walk.mode = "logs"
    /\ walk.pc = "clean"
    /\ walk.idx <= Len(walk.log_files)
    /\ LET place == walk.log_files[walk.idx]
       IN  walk' = [walk EXCEPT
                      !.handed = Append(@, place),
                      !.tree[place] = clean_log_file(@, WalkCutoff),
                      !.idx = @ + 1]
    /\ UNCHANGED << engine, classify, sniff >>
    /\ UNCHANGED << cron, signals, session, backing >>

\* process_directory: one round of the loop over the files os.walk yields
ProcessDirectoryVisit ==
    /\ walk.mode = "code"
    /\ walk.pc = "walk"
    /\ \E place \in walk.todo :
          IF UnderAssets(place)
          THEN walk' = [walk EXCEPT !.todo = @ \ {place}]
          ELSE IF as_file_type(lower(suffix(place[2])))
                      \in walk.selected_types
          THEN walk' =
                  [walk EXCEPT
                     !.todo = @ \ {place},
                     !.handed = Append(@, place),
                     !.tree[place] =
                         remove_logging_statements(
                             @, as_file_type(suffix(place[2])))]
          ELSE walk' = [walk EXCEPT !.todo = @ \ {place}]
    /\ UNCHANGED << engine, classify, sniff >>
    /\ UNCHANGED << cron, signals, session, backing >>

NextWalk ==
    \/ GetLogFilesVisit
    \/ GetLogFilesReturn
    \/ CleanLogFile
    \/ ProcessDirectoryVisit

SpecWalk == InitWalk /\ [][NextWalk]_vars

(***************************************************************************)
(* Scheduled cleaning: the cron jobs of LogFileManager, the menu of        *)
(* LogCleaner that manages them, and the run that cron starts.             *)
(***************************************************************************)
\* The most jobs the crontab holds when the program starts
MaxJobs == 3

\* The most operations of one run
MaxCronOps == 2

job_comment_base == <<"l","o","g","-","c","l","e","a","n","e","r","-","a","u","t","o","m","a","t","e","d">>

DigitChar == << "0", "1", "2", "3", "4", "5", "6", "7", "8", "9" >>

\* str(n) of a natural number
RECURSIVE str_int(_)
str_int(n) ==
    IF n < 10 THEN << DigitChar[n + 1] >>
    ELSE str_int(n \div 10) \o << DigitChar[(n % 10) + 1] >>

\* n in w digits, as %Y, %m, %d, %H, %M and %S of strftime write it
RECURSIVE Padded(_, _)
Padded(n, w) ==
    IF w = 0 THEN <<>>
    ELSE Padded(n \div 10, w - 1) \o << DigitChar[(n % 10) + 1] >>

\* dt.strftime('%Y%m%d_%H%M%S')
strftime(dt) ==
    Padded(dt.year, 4) \o Padded(dt.month, 2) \o Padded(dt.day, 2) \o <<"_">>
        \o Padded(dt.hour, 2) \o Padded(dt.minute, 2) \o Padded(dt.second, 2)

\* int(s): the value of an optional sign and digits between white space, or
\* ValueError
int(s) ==
    LET t == strip(s)
        signed == t # <<>> /\ Head(t) \in {"+", "-"}
        digits == IF signed THEN Tail(t) ELSE t
        value == Num(digits, 1, Len(digits))
    IN  IF digits = <<>> \/ value < 0
        THEN [raised |-> TRUE, value |-> 0]
        ELSE [raised |-> FALSE,
              value |-> IF signed /\ Head(t) = "-" THEN 0 - value ELSE value]

\* dt - timedelta(days=days)
RECURSIVE minus_days(_, _)
minus_days(dt, days) ==
    IF days = 0 THEN dt
    ELSE IF dt.day > 1
    THEN minus_days([dt EXCEPT !.day = @ - 1], days - 1)
    ELSE IF dt.month > 1
    THEN minus_days([dt EXCEPT !.month = @ - 1,
                               !.day = DaysInMonth(dt.year, dt.month - 1)],
                    days - 1)
    ELSE minus_days([dt EXCEPT !.year = @ - 1, !.month = 12, !.day = 31],
                    days - 1)

\* The words /bin/sh makes of a command line of plain and double-quoted
\* words: sys.argv of the program it starts, after the program's name
RECURSIVE shell_words(_, _, _, _)
shell_words(chars, cur, quoted, started) ==
    IF chars = <<>>
    THEN (IF started THEN << cur >> ELSE <<>>)
    ELSE IF Head(chars) = "\""
    THEN shell_words(Tail(chars), cur, ~quoted, TRUE)
    ELSE IF Head(chars) = " " /\ ~quoted
    THEN (IF started THEN << cur >> ELSE <<>>)
             \o shell_words(Tail(chars), <<>>, FALSE, FALSE)
    ELSE shell_words(Tail(chars), Append(cur, Head(chars)), quoted, TRUE)

\* os.path.abspath(sys.argv[0]) of the interactive run
script_path == <<"/","o","p","t","/","l","c","/","_","_","m","a","i","n","_","_",".","p","y">>

\* The directory whose logs are cleaned
LogDir == <<"/","v","a","r","/","l","o","g","/","a","p","p">>

\* cmd = f'python3 {script_path} --clean-logs "{log_dir_path}"'
cmd(script, log_dir) ==
    <<"p","y","t","h","o","n","3"," ">> \o script \o <<" ","-","-","c","l","e","a","n","-","l","o","g","s"," ","\"">> \o log_dir \o <<"\"">>

\* user_cron.new(command=cmd, comment=job_comment) and
\* job.setall(f'{minute} {hour} * * *'). id stands for the identity of the
\* CronItem object.
CronItem(id, command, comment, minute, hour) ==
    [id |-> id, command |-> command, comment |-> comment,
     slices |-> str_int(minute) \o <<" ">> \o str_int(hour) \o <<" ","*"," ","*"," ","*">>]

\* job.comment.startswith(self.job_comment_base)
IsLogCleanerJob(job) == startswith(job.comment, job_comment_base)

\* list(self.log_manager.get_cron_jobs())
get_cron_jobs(crons) == SelectSeq(crons, IsLogCleanerJob)

\* any(job.comment.startswith(self.job_comment_base) for job in user_cron)
has_cron_job(crons) ==
    \E k \in 1..Len(crons) : IsLogCleanerJob(crons[k])

\* CronTab.remove(job): the list of jobs without the item
RemoveItem(crons, job) ==
    SelectSeq(crons, LAMBDA other : other.id # job.id)

\* The loop of remove_cron_job run over the list of jobs itself, so that
\* the job after a removed one is passed over
RECURSIVE LiveLoop(_, _)
LiveLoop(crons, k) ==
    IF k > Len(crons) THEN crons
    ELSE IF IsLogCleanerJob(crons[k])
    THEN LiveLoop(RemoveItem(crons, crons[k]), k + 1)
    ELSE LiveLoop(crons, k + 1)

jobs_after_removal_live(crons) == LiveLoop(crons, 1)

\* for job in self.user_cron: if job.comment.startswith(...):
\* self.user_cron.remove(job). CronTab.__iter__ yields the items of a copy
\* of its list, taken when the loop starts.
RECURSIVE RemoveLoop(_, _, _)
RemoveLoop(snapshot, k, crons) ==
    IF k > Len(snapshot) THEN crons
    ELSE IF IsLogCleanerJob(snapshot[k])
    THEN RemoveLoop(snapshot, k + 1, RemoveItem(crons, snapshot[k]))
    ELSE RemoveLoop(snapshot, k + 1, crons)

\* The jobs remove_cron_job leaves in user_cron
jobs_after_removal(crons) == RemoveLoop(crons, 1, crons)

\* list[i] of Python, in a sequence of its own: i counts from 0 and, when
\* negative, from the end; no element stands for IndexError
list_item(list, i) ==
    IF i >= 0 /\ i < Len(list) THEN << list[i + 1] >>
    ELSE IF i < 0 /\ i >= 0 - Len(list) THEN << list[Len(list) + i + 1] >>
    ELSE <<>>

\* datetime.now() of the run
CronNow == datetime(2024, 3, 17, 0, 0, 0)

\* What the user answers to "Enter number of days to retain logs"
RetentionDays == {0, 30, 60}

\* The hour and minute the user enters for the daily cleaning
CleaningTimes == { << 2, 30 >>, << 0, 0 >> }

\* What the user answers to "Enter schedule number to remove (1-N)"
ScheduleInputs == { <<"1">>, <<"2">>, <<"3">>, <<"0">>, <<"-","1">>, <<" ","2"," ">>, <<"4">>, <<"t","w","o">> }

\* The lines of the log file in LogDir
CronLinePool ==
    { <<"2","0","2","3","-","1","2","-","0","1"," ","0","0",":","0","0",":","0","0"," ","I","N","F","O"," ","O","l","d">>,
      <<"2","0","2","4","-","0","2","-","1","5"," ","1","0",":","3","0",":","4","5"," ","I","N","F","O"," ","T","e","s","t">>,
      <<"2","0","2","4","-","0","3","-","1","0"," ","0","8",":","0","0",":","0","0"," ","I","N","F","O"," ","N","e","w">> }

\* The jobs a crontab holds when the program starts: schedules of earlier
\* sessions and jobs of other programs, with and without a comment
JobShapes ==
    { [command |-> cmd(script_path, LogDir),
       comment |-> job_comment_base \o <<"_","2","0","2","4","0","3","0","1","_","1","2","0","0","0","0">>,
       minute |-> 30, hour |-> 2],
      [command |-> cmd(script_path, LogDir),
       comment |-> job_comment_base \o <<"_","2","0","2","4","0","3","0","2","_","1","2","0","0","0","0">>,
       minute |-> 0, hour |-> 0],
      [command |-> <<"t","a","r"," ","c","z","f"," ","/","b",".","t","g","z"," ","/","h","o","m","e">>, comment |-> <<"b","a","c","k","u","p">>,
       minute |-> 15, hour |-> 4],
      [command |-> <<"u","p","d","a","t","e","d","b">>, comment |-> <<>>,
       minute |-> 0, hour |-> 5] }

\* The record of an operation that has not happened
NoOp ==
    [name |-> "none", action |-> 0, input |-> <<>>, listed |-> <<>>,
     ret |-> "none", raised |-> "none", job |-> 0, cutoff |-> None,
     writes |-> 0, before |-> <<>>, log_before |-> <<>>]

InitCron ==
    /\ NoRun
    /\ backing = Unused
    /\ classify = Unused
    /\ sniff = Unused
    /\ walk = Unused
    /\ signals = Unused
    /\ session = Unused
    /\ \E shapes \in SeqsUpTo(JobShapes, MaxJobs),
          texts \in SeqsUpTo(CronLinePool, MaxLines) :
          LET crons ==
                  IF Len(shapes) = 0 THEN <<>>
                  ELSE [k \in 1..Len(shapes) |->
                           CronItem(k, shapes[k].command, shapes[k].comment,
                                    shapes[k].minute, shapes[k].hour)]
          IN  cron = [user_cron |-> crons, crontab |-> crons,
                      log |-> IF Len(texts) = 0 THEN <<>>
                              ELSE FileOf(texts, "\n", TRUE),
                      ops |-> 0, next_id |-> Len(shapes) + 1,
                      entered |-> {}, last |-> NoOp]

\* The state of cron after an operation that leaves op as its record
CronAfter(user_cron, crontab, log, op) ==
    cron' = [cron EXCEPT !.user_cron = user_cron, !.crontab = crontab,
                         !.log = log, !.ops = @ + 1,
                         !.last = [op EXCEPT !.before = cron.user_cron,
                                             !.log_before = cron.log]]

\* self.user_cron.write() after the changes that left crons in user_cron:
\* the crontab of the user is replaced, or the writing raises and the except
\* clause of the caller returns False
WriteCrontab(crons, op) ==
    \/ CronAfter(crons, crons, cron.log,
                 [op EXCEPT !.ret = "True", !.writes = 1])
    \/ CronAfter(crons, cron.crontab, cron.log,
                 [op EXCEPT !.ret = "False", !.writes = 0])

\* LogFileManager.remove_specific_cron_job(job)
remove_specific_cron_job(job, op) ==
    WriteCrontab(RemoveItem(cron.user_cron, job), [op EXCEPT !.job = job.id])

\* LogFileManager.remove_cron_job()
remove_cron_job(op) ==
    WriteCrontab(jobs_after_removal(cron.user_cron), op)

\* LogCleaner._handle_automation_management, up to its return to the menu
\* of _get_cleaning_mode
HandleAutomationManagement ==
    /\ cron.ops < MaxCronOps
    /\ LET jobs == get_cron_jobs(cron.user_cron)
           op == [NoOp EXCEPT !.name = "manage", !.listed = jobs]
       IN  IF jobs = <<>>
           THEN CronAfter(cron.user_cron, cron.crontab, cron.log, op)
           ELSE \/ /\ Len(jobs) = 1
                   /\ remove_specific_cron_job(jobs[1],
                                               [op EXCEPT !.action = 1])
                \/ /\ Len(jobs) # 1
                   /\ \E input \in ScheduleInputs :
                         LET job_num == int(input)
                             asked == [op EXCEPT !.action = 1,
                                                 !.input = input]
                             job_to_remove ==
                                 list_item(jobs, job_num.value - 1)
                         IN  IF job_num.raised
                             THEN CronAfter(cron.user_cron, cron.crontab,
                                            cron.log,
                                            [asked EXCEPT
                                               !.raised = "ValueError"])
                             ELSE IF job_to_remove = <<>>
                             THEN CronAfter(cron.user_cron, cron.crontab,
                                            cron.log,
                                            [asked EXCEPT
                                               !.raised = "IndexError"])
                             ELSE remove_specific_cron_job(job_to_remove[1],
                                                           asked)
                \/ remove_cron_job([op EXCEPT !.action = 2])
                \/ CronAfter(cron.user_cron, cron.crontab, cron.log,
                             [op EXCEPT !.action = 3])
    /\ UNCHANGED << engine, classify, sniff, walk, signals, session,
                    backing >>

\* LogFileManager.setup_cron_job(script_path, log_dir, hour, minute) after
\* the cleaning that left the log as it is in cleaned
setup_cron_job(script, log_dir, hour, minute, cleaned, op, days) ==
    LET job == CronItem(cron.next_id, cmd(script, log_dir),
                        job_comment_base \o <<"_">> \o strftime(CronNow),
                        minute, hour)
        crons == Append(cron.user_cron, job)
        made == [op EXCEPT !.job = job.id]
    IN  \/ cron' = [cron EXCEPT
                      !.user_cron = crons, !.crontab = crons,
                      !.log = cleaned, !.ops = @ + 1, !.next_id = @ + 1,
                      !.entered = @ \cup { << job.id, days >> },
                      !.last = [made EXCEPT !.ret = "True", !.writes = 1]]
        \/ cron' = [cron EXCEPT
                      !.user_cron = crons,
                      !.log = cleaned, !.ops = @ + 1, !.next_id = @ + 1,
                      !.last = [made EXCEPT !.ret = "False"]]

\* LogCleaner._configure_log_retention once the user has agreed to proceed:
\* _get_retention_days, clean_logs_before_date and, when the user asks for
\* it, _setup_automation
ConfigureLogRetention ==
    /\ cron.ops < MaxCronOps
    /\ \E days \in RetentionDays :
          LET cutoff_date_ == minus_days(CronNow, days)
              op == [NoOp EXCEPT !.name = "configure", !.cutoff = cutoff_date_,
                                 !.before = cron.user_cron,
                                 !.log_before = cron.log]
          IN  \/ CronAfter(cron.user_cron, cron.crontab,
                           clean_log_file(cron.log, cutoff_date_), op)
              \/ \E time \in CleaningTimes :
                    setup_cron_job(script_path, LogDir, time[1], time[2],
                                   clean_log_file(cron.log, cutoff_date_),
                                   op, days)
    /\ UNCHANGED << engine, classify, sniff, walk, signals, session,
                    backing >>

\* main() with the arguments of the cron job: get_log_files(log_dir) and
\* clean_logs_before_date(log_files, datetime.now() - timedelta(days=30))
main_clean_logs(argv, op) ==
    IF Len(argv) < 3
    THEN CronAfter(cron.user_cron, cron.crontab, cron.log,
                   [op EXCEPT !.raised = "IndexError"])
    ELSE LET log_dir == argv[3]
             cutoff_date_ == minus_days(CronNow, 30)
         IN  CronAfter(cron.user_cron, cron.crontab,
                       IF log_dir = LogDir
                       THEN clean_log_file(cron.log, cutoff_date_)
                       ELSE cron.log,
                       [op EXCEPT !.cutoff = cutoff_date_])

\* cron starts a job of the crontab that runs the program
CronFires ==
    /\ cron.ops < MaxCronOps
    /\ \E k \in 1..Len(cron.crontab) :
          LET job == cron.crontab[k]
              words == shell_words(job.command, <<>>, FALSE, FALSE)
          IN  /\ Len(words) >= 3
              /\ words[1] = <<"p","y","t","h","o","n","3">>
              /\ words[2] = script_path
              /\ words[3] = <<"-","-","c","l","e","a","n","-","l","o","g","s">>
              /\ main_clean_logs(Tail(words),
                                 [NoOp EXCEPT !.name = "run",
                                              !.job = job.id])
    /\ UNCHANGED << engine, classify, sniff, walk, signals, session,
                    backing >>

NextCron ==
    \/ HandleAutomationManagement
    \/ ConfigureLogRetention
    \/ CronFires

SpecCron == InitCron /\ [][NextCron]_vars

(***************************************************************************)
(* GracefulExit: the handler of SIGINT and SIGTERM. Python runs a signal   *)
(* handler in the main thread between two bytecodes of whatever runs       *)
(* there, the handler itself and the cleanup callback included, so calls   *)
(* of the handler nest. stack holds the calls in progress above the        *)
(* interrupted program, the innermost last.                                *)
(***************************************************************************)
\* The most signals delivered in one run
MaxSignals == 3

Frame(fn, at) == [fn |-> fn, pc |-> at]

InitSignals ==
    /\ NoRun
    /\ backing = Unused
    /\ classify = Unused
    /\ sniff = Unused
    /\ walk = Unused
    /\ cron = Unused
    /\ session = Unused
    /\ \E testing \in BOOLEAN :
          signals = [testing |-> testing, killed |-> FALSE,
                     registered |-> FALSE, stack |-> <<>>,
                     status |-> "running", ui |-> <<>>, calls |-> 0,
                     delivered |-> 0, forced |-> 0, thrown |-> <<>>,
                     callback_raised |-> FALSE]

\* An exception leaves the innermost call as if nothing caught it
RECURSIVE Propagate_uncaught(_, _, _)
Propagate_uncaught(s, stack, exception) ==
    IF stack = <<>>
    THEN IF s.testing
         THEN [s EXCEPT !.stack = <<>>, !.thrown = Append(@, exception)]
         ELSE [s EXCEPT !.stack = <<>>,
                        !.thrown = Append(@, exception),
                        !.status = IF exception = "SystemExit(0)"
                                   THEN "exit 0" ELSE "exit 1"]
    ELSE Propagate_uncaught(s, SubSeq(stack, 1, Len(stack) - 1), exception)

\* An exception leaves the innermost call: the calls it passes through end,
\* but a call of _exit_handler that is inside its try statement goes on
\* with the finally clause. What reaches the interrupted program ends the
\* process, with the code of a SystemExit and with 1 otherwise; in testing
\* mode the program is a test that called the handler and catches it.
RECURSIVE Propagate(_, _, _)
Propagate(s, stack, exception) ==
    IF stack = <<>>
    THEN IF s.testing
         THEN [s EXCEPT !.stack = <<>>, !.thrown = Append(@, exception)]
         ELSE [s EXCEPT !.stack = <<>>,
                        !.thrown = Append(@, exception),
                        !.status = IF exception = "SystemExit(0)"
                                   THEN "exit 0" ELSE "exit 1"]
    ELSE LET top == stack[Len(stack)]
             below == SubSeq(stack, 1, Len(stack) - 1)
         IN  IF top.fn = "_exit_handler" /\ top.pc = "in_try"
             THEN [s EXCEPT !.stack = Append(below,
                                             Frame("_exit_handler",
                                                   "finally"))]
             ELSE Propagate(s, below, exception)

\* The innermost call is in function fn at position at
Running(fn, at) ==
    /\ signals.status = "running"
    /\ signals.stack # <<>>
    /\ signals.stack[Len(signals.stack)] = Frame(fn, at)

\* The stack with its innermost call moved to position at
MovedTo(at) ==
    [signals.stack EXCEPT ![Len(signals.stack)].pc = at]

\* GracefulExit.register_cleanup(callback), called by LogCleaner.__init__
register_cleanup ==
    /\ signals.status = "running"
    /\ signals.stack = <<>>
    /\ ~signals.registered
    /\ signals' = [signals EXCEPT !.registered = TRUE]
    /\ UNCHANGED << engine, classify, sniff, walk, cron, session,
                    backing >>

\* A call of _exit_handler starts: a SIGINT or SIGTERM is delivered or, in
\* testing mode, where __init__ installs no handler, a test calls it
Deliver ==
    /\ signals.status = "running"
    /\ signals.delivered < MaxSignals
    /\ signals.testing => signals.stack = <<>>
    /\ signals' = [signals EXCEPT
                     !.delivered = @ + 1,
                     !.stack = Append(@, Frame("_exit_handler", "enter"))]
    /\ UNCHANGED << engine, classify, sniff, walk, cron, session,
                    backing >>

\* if self.killed: self.ui.print_error("\nForce quitting..."), then
\* raise SystemExit(1) or sys.exit(1)
HandlerEnter ==
    /\ Running("_exit_handler", "enter")
    /\ IF signals.killed
       THEN signals' = Propagate([signals EXCEPT
                                    !.ui = Append(@, "Force quitting..."),
                                    !.forced = @ + 1],
                                 signals.stack, "SystemExit(1)")
       ELSE signals' = [signals EXCEPT !.stack = MovedTo("set_killed")]
    /\ UNCHANGED << engine, classify, sniff, walk, cron, session,
                    backing >>

\* self.killed = True
HandlerSetKilled ==
    /\ Running("_exit_handler", "set_killed")
    /\ signals' = [signals EXCEPT !.killed = TRUE, !.stack = MovedTo("warn")]
    /\ UNCHANGED << engine, classify, sniff, walk, cron, session,
                    backing >>

\* self.ui.print_warning(...) and, in testing mode, raise KeyboardInterrupt
HandlerWarn ==
    /\ Running("_exit_handler", "warn")
    /\ LET warned == [signals EXCEPT !.ui = Append(@, "Cleaning up...")]
       IN  IF signals.testing
           THEN signals' = Propagate(warned, signals.stack,
                                     "KeyboardInterrupt")
           ELSE signals' = [warned EXCEPT !.stack = MovedTo("try")]
    /\ UNCHANGED << engine, classify, sniff, walk, cron, session,
                    backing >>

\* try: if hasattr(self, 'cleanup_callback'): self.cleanup_callback()
HandlerTry ==
    /\ Running("_exit_handler", "try")
    /\ IF signals.registered
       THEN signals' = [signals EXCEPT
                          !.calls = @ + 1,
                          !.stack = Append(MovedTo("in_try"),
                                           Frame("cleanup_callback", "run"))]
       ELSE signals' = [signals EXCEPT !.stack = MovedTo("finally")]
    /\ UNCHANGED << engine, classify, sniff, walk, cron, session,
                    backing >>

\* The cleanup callback returns
CallbackReturns ==
    /\ Running("cleanup_callback", "run")
    /\ signals' = [signals EXCEPT
                     !.stack = Append(SubSeq(@, 1, Len(@) - 2),
                                      Frame("_exit_handler", "finally"))]
    /\ UNCHANGED << engine, classify, sniff, walk, cron, session,
                    backing >>

\* The cleanup callback raises
CallbackRaises ==
    /\ Running("cleanup_callback", "run")
    /\ signals' = Propagate([signals EXCEPT !.callback_raised = TRUE],
                            signals.stack, "Exception")
    /\ UNCHANGED << engine, classify, sniff, walk, cron, session,
                    backing >>

\* finally: sys.exit(0)
HandlerFinally ==
    /\ Running("_exit_handler", "finally")
    /\ signals' = Propagate(signals, signals.stack, "SystemExit(0)")
    /\ UNCHANGED << engine, classify, sniff, walk, cron, session,
                    backing >>

NextSignals ==
    \/ register_cleanup
    \/ Deliver
    \/ HandlerEnter
    \/ HandlerSetKilled
    \/ HandlerWarn
    \/ HandlerTry
    \/ CallbackReturns
    \/ CallbackRaises
    \/ HandlerFinally

SpecSignals == InitSignals /\ [][NextSignals]_vars

(***************************************************************************)
(* LogCleaner.initialize_session: the loop over the cleaning modes and the *)
(* selections its rounds leave in the LogCleaner object.                   *)
(***************************************************************************)
\* The most rounds of the loop of initialize_session
MaxRounds == 2

\* The most paths the user enters in _get_file_list
MaxEntered == 2

\* The working directory of the process
Cwd == << "proj" >>

\* The directories the user may enter in _handle_directory_mode, relative to
\* the working directory: '.' and 'src'
EnteredDirs == { <<>>, << "src" >> }

\* The paths the user may enter in _get_file_list, with what is there
EnteredFiles ==
    { [path |-> Path(<<>>, "app", ".js"), is_file |-> TRUE],
      [path |-> Path(<< "src" >>, "util", ".PY"), is_file |-> TRUE],
      [path |-> Path(<<>>, "notes", ".txt"), is_file |-> TRUE],
      [path |-> Path(<<>>, "gone", ".py"), is_file |-> FALSE] }

\* The answers to the questions of _select_file_types: yes to the first, or
\* no and then yes for the extensions of accepted
TypeAnswers ==
    { [all |-> TRUE, accepted |-> {}] }
        \cup { [all |-> FALSE, accepted |-> S] :
                 S \in SUBSET SUPPORTED_EXTENSIONS }

\* The answer to "Create backup of modified files?" and whether the making
\* of the backup and log directories raises
BackupAnswers ==
    { [backup |-> FALSE, raises |-> FALSE], [backup |-> TRUE, raises |-> FALSE],
      [backup |-> TRUE, raises |-> TRUE] }

\* os.path.abspath(path) and Path.resolve() of a relative path
abspath(parts) == Cwd \o parts

\* self.source_path before any selection
NoSource == [kind |-> "None", dir |-> <<>>, files |-> <<>>]

\* The record of a round that has not happened
NoRound ==
    [mode_choice |-> 0, source_choice |-> 0, code_setup |-> "skipped",
     log_setup |-> "skipped", select |-> "not called", all |-> FALSE,
     accepted |-> {}, before |-> {}]

InitSession ==
    /\ NoRun
    /\ backing = Unused
    /\ classify = Unused
    /\ sniff = Unused
    /\ walk = Unused
    /\ cron = Unused
    /\ signals = Unused
    /\ session = [source_path |-> NoSource, selected_types |-> {},
                  should_backup |-> FALSE, rounds |-> 0,
                  returned |-> "none", last |-> NoRound]

\* _select_file_types when the user answers all to the first question and
\* accepts the extensions of accepted in the loop: the object and the round
\* afterwards, with the returned value in select
select_file_types(s, all, accepted) ==
    IF all
    THEN [s EXCEPT !.selected_types = SUPPORTED_EXTENSIONS,
                   !.last.select = "True", !.last.all = TRUE,
                   !.last.before = s.selected_types]
    ELSE LET selected == s.selected_types \cup accepted
         IN  [s EXCEPT !.selected_types = selected,
                       !.last.select = IF selected = {} THEN "False"
                                       ELSE "True",
                       !.last.accepted = accepted,
                       !.last.before = s.selected_types]

\* _handle_directory_mode, path being the first entered path that is a
\* directory
handle_directory_mode(s, path, all, accepted) ==
    LET chosen == select_file_types(
                      [s EXCEPT !.source_path =
                                   [kind |-> "dir", dir |-> abspath(path),
                                    files |-> <<>>]],
                      all, accepted)
    IN  [chosen EXCEPT !.last.code_setup = chosen.last.select]

\* validate_files(files)[0]
validate_files(files) ==
    LET valid == SelectSeq(files, LAMBDA file :
                               file.is_file /\ validate_file_type(file.path))
    IN  IF Len(valid) = 0 THEN <<>>
        ELSE [k \in 1..Len(valid) |->
                 [valid[k].path EXCEPT !.dir = abspath(@)]]

\* _handle_file_mode with the paths _get_file_list returns
handle_file_mode(s, files) ==
    LET valid_files == validate_files(files)
    IN  IF Len(valid_files) = 0
        THEN [s EXCEPT !.last.code_setup = "False"]
        ELSE [s EXCEPT !.source_path = [kind |-> "list", dir |-> <<>>,
                                        files |-> valid_files],
                       !.selected_types =
                           { suffix_lower(valid_files[k].ext) :
                               k \in 1..Len(valid_files) },
                       !.last.code_setup = "True"]

\* _setup_assets_and_backup: it returns True, or create_backup_directory or
\* setup_logging raises
setup_assets_and_backup(s, backup, raises) ==
    IF backup /\ raises
    THEN [s EXCEPT !.should_backup = TRUE, !.last.code_setup = "raised"]
    ELSE [s EXCEPT !.should_backup = backup]

\* What one round of the loop of initialize_session does after the setups:
\* "True" and "False" are returned, "continue" starts the next round
round_result_for_any_mode(mode_choice, code_setup, log_setup, go_on) ==
    IF code_setup = "raised" \/ log_setup = "raised" THEN "False"
    ELSE IF code_setup = "False" \/ log_setup = "False"
    THEN (IF go_on THEN "continue" ELSE "False")
    ELSE "True"

round_result(mode_choice, code_setup, log_setup, go_on) ==
    IF code_setup = "raised" \/ log_setup = "raised" THEN "False"
    ELSE IF code_setup = "False" \/ log_setup = "False" \/ mode_choice = 2
    THEN (IF go_on THEN "continue" ELSE "False")
    ELSE "True"

\* The end of a round in which _setup_code_cleaning and _setup_log_cleaning
\* have left the object and the round as they are in s
EndRound(s, go_on) ==
    LET result == round_result(s.last.mode_choice, s.last.code_setup,
                               s.last.log_setup, go_on)
    IN  session' = [s EXCEPT !.rounds = @ + 1,
                             !.returned = IF result = "continue" THEN "none"
                                          ELSE result]

\* The round goes on after _setup_code_cleaning: with mode 3 and the code
\* set up, _setup_log_cleaning runs and returns True or False or raises
AfterCodeSetup(s, go_on) ==
    IF s.last.mode_choice = 3 /\ s.last.code_setup = "True"
    THEN \E log_setup \in {"True", "False", "raised"} :
            EndRound([s EXCEPT !.last.log_setup = log_setup], go_on)
    ELSE EndRound(s, go_on)

\* The state a round starts from
RoundOf(mode_choice, source_choice) ==
    [session EXCEPT !.last = [NoRound EXCEPT
                                !.mode_choice = mode_choice,
                                !.source_choice = source_choice]]

\* A round with mode 1 or 3 in which the user selects a directory
DirectoryRound ==
    /\ session.returned = "none"
    /\ session.rounds < MaxRounds
    /\ \E mode_choice \in {1, 3}, path \in EnteredDirs,
          types \in TypeAnswers, answer \in BackupAnswers,
          go_on \in BOOLEAN :
          LET handled == handle_directory_mode(RoundOf(mode_choice, 1), path,
                                               types.all, types.accepted)
          IN  AfterCodeSetup(
                  IF handled.last.code_setup = "True"
                  THEN setup_assets_and_backup(handled, answer.backup,
                                               answer.raises)
                  ELSE handled,
                  go_on)
    /\ UNCHANGED << engine, classify, sniff, walk, cron, signals,
                    backing >>

\* A round with mode 1 or 3 in which the user selects specific files
FileRound ==
    /\ session.returned = "none"
    /\ session.rounds < MaxRounds
    /\ \E mode_choice \in {1, 3},
          files \in SeqsUpTo(EnteredFiles, MaxEntered) \ { <<>> },
          answer \in BackupAnswers, go_on \in BOOLEAN :
          LET handled == handle_file_mode(RoundOf(mode_choice, 2), files)
          IN  AfterCodeSetup(
                  IF handled.last.code_setup = "True"
                  THEN setup_assets_and_backup(handled, answer.backup,
                                               answer.raises)
                  ELSE handled,
                  go_on)
    /\ UNCHANGED << engine, classify, sniff, walk, cron, signals,
                    backing >>

\* A round with mode 2: _setup_log_cleaning only
LogRound ==
    /\ session.returned = "none"
    /\ session.rounds < MaxRounds
    /\ \E log_setup \in {"True", "False", "raised"}, go_on \in BOOLEAN :
          EndRound([RoundOf(2, 0) EXCEPT !.last.log_setup = log_setup],
                   go_on)
    /\ UNCHANGED << engine, classify, sniff, walk, cron, signals,
                    backing >>

NextSession ==
    \/ DirectoryRound
    \/ FileRound
    \/ LogRound

SpecSession == InitSession /\ [][NextSession]_vars

(***************************************************************************)
(* Backups: a project selected as a directory or as files, and where       *)
(* make_backup stores the files process_files modifies. A path is the      *)
(* sequence of the names from the root directory down.                     *)
(***************************************************************************)
\* The most files of the project
MaxProjectFiles == 2

\* The directory of the project, and a symbolic link to it
ProjectDir == Cwd \o << "app" >>
ProjectLink == << "link" >>

\* What the user may enter in _handle_directory_mode for the project:
\* its path, its path relative to the working directory, the path of the link
ProjectEntries ==
    { [parts |-> ProjectDir, absolute |-> TRUE],
      [parts |-> << "app" >>, absolute |-> FALSE],
      [parts |-> ProjectLink, absolute |-> TRUE] }

\* os.path.abspath(path): the path made absolute; symbolic links stay
os_path_abspath(entered) ==
    IF entered.absolute THEN entered.parts ELSE abspath(entered.parts)

\* Path.resolve() of an absolute path: symbolic links are followed
resolve(parts) ==
    IF IsUnder(parts, ProjectLink)
    THEN ProjectDir \o SubSeq(parts, Len(ProjectLink) + 1, Len(parts))
    ELSE parts

\* The files of the project: directory below ProjectDir, name, extension
ProjectPlaces ==
    { Path(sub, name, ".js") :
        sub \in { <<>>, << "a" >>, << "b" >> }, name \in { "index", "app" } }

ProjectLinePool == { <<"c","o","n","s","o","l","e",".","l","o","g","(","'","a","'",")",";">>, <<"c","o","n","s","o","l","e",".","l","o","g","(","'","b","'",")",";">>, <<"k","e","e","p","(",")",";">> }

Projects ==
    UNION { [S -> { FileOf(<< text >>, "\n", TRUE) :
                      text \in ProjectLinePool }] :
              S \in { T \in SUBSET ProjectPlaces :
                        Cardinality(T) \in 1..MaxProjectFiles } }

\* The ways to put the files of a set in a list
RECURSIVE ListsOf(_)
ListsOf(S) ==
    IF S = {} THEN { <<>> }
    ELSE UNION { { << x >> \o rest : rest \in ListsOf(S \ {x}) } : x \in S }

\* The file of the project at place, under the directory at
PlacedAt(at, place) == [place EXCEPT !.dir = at \o @]

\* self.source_path as _handle_directory_mode and _handle_file_mode leave it:
\* the absolute path of the directory entered, or the resolved paths of the
\* files entered, each by its path in the project or by its path through the
\* link
Sources(project) ==
    { [kind |-> "dir", dir |-> os_path_abspath(entered), files |-> <<>>] :
        entered \in ProjectEntries }
      \cup
    { [kind |-> "list", dir |-> <<>>,
       files |-> [k \in 1..Len(list) |->
                    PlacedAt(resolve(list[k][1]), list[k][2])]] :
        list \in UNION { ListsOf({ << through[place], place >> :
                                      place \in DOMAIN through }) :
                           through \in
                               UNION { [S -> {ProjectDir, ProjectLink}] :
                                         S \in SUBSET (DOMAIN project)
                                                  \ { {} } } } }

\* The directory make_backup takes the relative paths from
source_base(source) ==
    IF source.kind = "list" THEN commonpath(source.files, 1) ELSE source.dir

\* get_assets_directory(source_path)
assets_directory(source) ==
    IF source.kind = "list"
    THEN Append(commonpath(source.files, 1), ASSETS_DIR_NAME)
    ELSE Append(resolve(source.dir), ASSETS_DIR_NAME)

\* rel_path of make_backup for the resolved file: its path relative to base,
\* or, when relative_to raises ValueError, its name alone
rel_path(file, base) ==
    IF IsUnder(file.dir, base)
    THEN [file EXCEPT !.dir = SubSeq(@, Len(base) + 1, Len(@))]
    ELSE [file EXCEPT !.dir = <<>>]

InitBackup ==
    /\ NoRun
    /\ classify = Unused
    /\ sniff = Unused
    /\ walk = Unused
    /\ cron = Unused
    /\ signals = Unused
    /\ session = Unused
    /\ \E project \in Projects :
       \E source \in Sources(project) :
          backing = [source_path |-> source, project |-> project,
                     initial |-> project,
                     todo |-> IF source.kind = "dir"
                              THEN { PlacedAt(source.dir, place) :
                                       place \in DOMAIN project }
                              ELSE { source.files[k] :
                                       k \in 1..Len(source.files) },
                     backups |-> <<>>, saved |-> {}, walked |-> FALSE]

\* The place in the project of the file at file_path
PlaceOf(file_path) ==
    LET resolved == resolve(file_path.dir)
    IN  [file_path EXCEPT !.dir = SubSeq(resolved, Len(ProjectDir) + 1,
                                         Len(resolved))]

\* One file of process_files: remove_logging_statements(file_path) with
\* should_backup set and current_backup_dir made, and in it, when a line
\* was removed, make_backup(file_path)
ProcessFile ==
    /\ \E file_path \in backing.todo :
          LET place == PlaceOf(file_path)
              content == backing.project[place]
              cleaned == remove_logging_statements(content, file_path.ext)
              resolved == [file_path EXCEPT !.dir = resolve(@)]
              backup_path == rel_path(resolved,
                                      source_base(backing.source_path))
          IN  IF cleaned = content
              THEN backing' = [backing EXCEPT !.todo = @ \ {file_path}]
              ELSE IF IsUnder(resolved.dir,
                              assets_directory(backing.source_path))
              THEN backing' = [backing EXCEPT !.todo = @ \ {file_path},
                                              !.project[place] = cleaned]
              ELSE backing' =
                      [backing EXCEPT
                         !.todo = @ \ {file_path},
                         !.project[place] = cleaned,
                         !.saved = @ \cup { [place |-> place,
                                             backup_path |-> backup_path] },
                         !.backups =
                             [p \in DOMAIN @ \cup {backup_path} |->
                                 IF p = backup_path THEN content ELSE @[p]]]
    /\ UNCHANGED << engine, classify, sniff, walk, cron, signals, session >>

\* os.walk of process_directory comes to the directory of the backups, which
\* lies in lc-cleaned-assets in the directory walked: the files in it are
\* processed like any other unless Path(root).is_relative_to(self.assets_dir)
\* holds, and none of them is backed up
WalkBackups ==
    /\ backing.source_path.kind = "dir"
    /\ ~backing.walked
    /\ IF IsUnder(Append(backing.source_path.dir, ASSETS_DIR_NAME),
                  assets_directory(backing.source_path))
       THEN backing' = [backing EXCEPT !.walked = TRUE]
       ELSE backing' =
               [backing EXCEPT
                  !.walked = TRUE,
                  !.backups = [p \in DOMAIN @ |->
                                  remove_logging_statements(@[p], p.ext)]]
    /\ UNCHANGED << engine, classify, sniff, walk, cron, signals, session >>

NextBackup ==
    \/ ProcessFile
    \/ WalkBackups

SpecBackup == InitBackup /\ [][NextBackup]_vars
(***************************************************************************)
(* Properties.                                                             *)
(***************************************************************************)
\* not line.strip()
Blank(line) == strip(line) = <<>>

\* The line numbers of the records of removed_lines
RemovedNumbers(removed_lines) ==
    { removed_lines[k][1] : k \in 1..Len(removed_lines) }

\* C1: the scan of remove_logging_statements leaves in cleaned_lines exactly
\* the lines of the input for which should_remove_line is false, in their
\* order; it records each line for which should_remove_line is true once,
\* with its 1-based number (in ascending order) and its stripped text; and
\* len(lines) - len(cleaned_lines) = len(removed_lines) = what the scan adds
\* to stats['lines_removed'].
C1_CleanedIsFilteredInput ==
    [][pc = "scan" =>
        LET Kept(line) == ~should_remove_line(line, rls.file_type)
            removed == rls'.removed_lines
        IN  /\ rls'.cleaned_lines = SelectSeq(rls.lines, Kept)
            /\ RemovedNumbers(removed) =
                  { i \in 1..Len(rls.lines) : ~Kept(rls.lines[i]) }
            /\ \A k \in 1..Len(removed) :
                  /\ removed[k][2] = strip(rls.lines[removed[k][1]])
                  /\ k > 1 => removed[k - 1][1] < removed[k][1]
            /\ Len(rls.lines) - Len(rls'.cleaned_lines) = Len(removed)
            /\ Len(removed) = stats'.lines_removed - stats.lines_removed
    ]_vars

\* A scan has removed the second line of a file and kept the first.
C1_Witness ==
    /\ pc \in {"backup", "write"}
    /\ Len(rls.lines) = 2
    /\ rls.removed_lines # <<>>
    /\ rls.removed_lines[1][1] = 2
    /\ rls.cleaned_lines = << rls.lines[1] >>
    /\ stats.lines_removed = 1

\* The entries of datetime_patterns that read a time of day
HasTimeOfDay(pattern) ==
    \E k \in 1..Len(pattern.format) : pattern.format[k] = "%H"

\* The timestamp of a line read with its time of day, None when it has none
timestamp_with_time(line) ==
    ExtractFrom(line, SelectSeq(datetime_patterns, HasTimeOfDay), 1)

\* Whether instant is a datetime at or after the naive cutoff
AtOrAfter(instant, cutoff) ==
    /\ instant.tag = "datetime"
    /\ ~CompareRaises(instant, cutoff)
    /\ datetime_ge(instant, cutoff)

\* C2: when clean_logs_before_date goes on to rewrite a file, every line
\* whose timestamp, read with its time of day, is at or after the cutoff is
\* among the lines it writes back.
C2_AtOrAfterCutoffIsKept ==
    [][(pc = "clean_scan" /\ pc' = "clean_write") =>
        \A i \in 1..Len(clean.lines) :
            AtOrAfter(timestamp_with_time(clean.lines[i]), cutoff_date) =>
                \E j \in 1..Len(clean'.new_lines) :
                    clean'.new_lines[j] = clean.lines[i]
    ]_vars

\* Whether log_date is a datetime strictly before the naive cutoff
Before(log_date, cutoff) ==
    /\ log_date.tag = "datetime"
    /\ ~CompareRaises(log_date, cutoff)
    /\ ~datetime_ge(log_date, cutoff)

\* C3: the loop of clean_logs_before_date over the lines of a file drops a
\* line if and only if it is not blank and its extracted date is < the
\* cutoff: when the file has such a line the loop goes on to rewrite the file
\* with the other lines, in their order, and counts len(lines) -
\* len(new_lines) removals; when it has none the file is not rewritten.
C3_DropsExactlyTheOlderLines ==
    [][pc = "clean_scan" =>
        LET Older(line) ==
                ~Blank(line) /\ Before(extract_date(line), cutoff_date)
            Kept(line) == ~Older(line)
            older == SelectSeq(clean.lines, Older)
        IN  /\ pc' = IF older # <<>> THEN "clean_write" ELSE "next"
            /\ older # <<>> =>
                  /\ clean'.new_lines = SelectSeq(clean.lines, Kept)
                  /\ clean'.lines_removed =
                        Len(clean.lines) - Len(clean'.new_lines)
    ]_vars

\* The places in datetime_patterns of the grammars, in the order of priority
\* C4 states: YYYY-MM-DD HH:MM:SS, YYYY-MM-DDTHH:MM:SS, the offset form, the
\* fractional Z form, MM/DD/YYYY, YYYY-MM-DD, epoch, Mon DD HH:MM:SS YYYY,
\* Dow Mon DD HH:MM:SS YYYY, YYYYMMDD.
grammar_order == << 2, 3, 5, 8, 4, 1, 7, 6, 9, 10 >>

grammar_table ==
    [k \in 1..Len(grammar_order) |-> datetime_patterns[grammar_order[k]]]

\* C4: every date extract_date has returned is the one of the first grammar,
\* in the order of grammar_table, whose pattern matches in the line and
\* parses.
C4_GrammarPriorityOrder ==
    \A i \in 1..Len(clean.log_dates) :
        clean.log_dates[i] # NotAsked =>
            clean.log_dates[i] = ExtractFrom(clean.lines[i], grammar_table, 1)

\* The number of lines of a sequence that are not blank
NonBlank(lines) == Len(lines) - Len(SelectSeq(lines, Blank))

\* C5: the scans of both engines keep every blank line and count none as a
\* removal: should_remove_line is false for a blank line under every file
\* type, the blank lines of cleaned_lines are those of the input and no
\* record of removed_lines names one; the blank lines of new_lines are those
\* of the lines the loop has been through, and lines_removed counts no more
\* than the other lines.
C5_BlankLinesAreKept ==
    [][/\ pc = "scan" =>
            /\ \A i \in 1..Len(rls.lines) : \A file_type \in FileTypes :
                  Blank(rls.lines[i]) =>
                      ~should_remove_line(rls.lines[i], file_type)
            /\ SelectSeq(rls'.cleaned_lines, Blank) =
                  SelectSeq(rls.lines, Blank)
            /\ \A n \in RemovedNumbers(rls'.removed_lines) :
                  ~Blank(rls.lines[n])
            /\ stats'.lines_removed - stats.lines_removed
                  <= NonBlank(rls.lines)
       /\ pc = "clean_scan" =>
            LET seen == SubSeq(clean.lines, 1, Len(clean'.log_dates))
            IN  /\ SelectSeq(clean'.new_lines, Blank) = SelectSeq(seen, Blank)
                /\ clean'.lines_removed <= NonBlank(seen)
    ]_vars

\* clean_logs_before_date has dropped a line of a file and kept a blank one.
C5_Witness ==
    /\ pc = "clean_write"
    /\ clean.lines_removed > 0
    /\ \E j \in 1..Len(clean.new_lines) : Blank(clean.new_lines[j])

\* C6: a scan of a file that a call of remove_logging_statements has already
\* returned from normally removes no line, does not go on to rewrite the file
\* and changes no statistic.
C6_SecondRunChangesNothing ==
    [][(pc = "scan" /\ rls.file_path \in completed) =>
        /\ rls'.removed_lines = <<>>
        /\ rls'.cleaned_lines = rls.lines
        /\ ~rls'.file_modified
        /\ pc' = "next"
        /\ stats' = stats
        /\ fs' = fs
    ]_vars

\* A file was cleaned and rewritten, then processed again without an error.
C6_Witness ==
    /\ pc = "next"
    /\ Len(source_path) = 2
    /\ source_path[1] = source_path[2]
    /\ idx = 3
    /\ stats.files_processed = 1
    /\ stats.lines_removed > 0
    /\ Len(ui) = 1
    /\ ui[1].kind = "success"

\* stripped_line.startswith('#')
Comment(line) == startswith(strip(line), Lit.hash)

\* C7: should_remove_line is false, under every file type, for every line
\* read whose stripped text begins with "#", and no record of removed_lines
\* holds such a line.
C7_CommentLinesAreNeverRemoved ==
    /\ \A i \in 1..Len(rls.lines) : \A file_type \in FileTypes :
          Comment(rls.lines[i]) => ~should_remove_line(rls.lines[i], file_type)
    /\ \A k \in 1..Len(rls.removed_lines) :
          ~Comment(rls.removed_lines[k][2])

\* A scan of a Python file has removed a line and kept a comment that one of
\* python_patterns matches.
C7_Witness ==
    /\ pc \in {"backup", "write"}
    /\ rls.file_type \in PythonTypes
    /\ rls.removed_lines # <<>>
    /\ \E j \in 1..Len(rls.cleaned_lines) :
          /\ Comment(rls.cleaned_lines[j])
          /\ \E p \in 1..NumPythonPatterns :
                python_pattern_search(p, rls.cleaned_lines[j])

\* Whether the step reports an error to the ui
Raises == Len(ui') = Len(ui) + 1 /\ ui'[Len(ui')].kind = "error"

\* C8: with should_backup set, a step changes a file only from the write of
\* remove_logging_statements and after make_backup has returned for the file
\* of this call, the copy it made being the content the file then has; and a
\* step in which make_backup raises leaves every file as it is and ends the
\* call.
C8_BackupBeforeOverwrite ==
    [][/\ (should_backup /\ fs' # fs) =>
            /\ pc = "write"
            /\ rls.backup_path # NoRls.backup_path
            /\ rls.backup_path # None =>
                  backups[rls.backup_path] = fs[rls.file_path]
            /\ \A p \in Paths : p # rls.file_path => fs'[p] = fs[p]
       /\ (pc = "backup" /\ Raises) => (fs' = fs /\ pc' = "next")
    ]_vars

\* A file has been rewritten after its backup was made.
C8_Witness ==
    /\ should_backup
    /\ pc = "next"
    /\ rls.backup_path \in DOMAIN backups
    /\ backups[rls.backup_path] # fs[rls.file_path]
    /\ ui # <<>>
    /\ ui[Len(ui)].kind = "success"

\* C9: a step of process_files in which reading, backing up or writing a
\* file raises reports the error, goes on with the next file and leaves the
\* statistics as the call of remove_logging_statements found them.
C9_FailingFileChangesNoStatistic ==
    [][(mode = "code" /\ Raises) =>
        /\ pc' = "next"
        /\ idx' = idx + 1
        /\ stats' = rls'.entry_stats
    ]_vars

\* The physical lines of content from the i-th on whose number is not in
\* removed
RECURSIVE Retained(_, _, _)
Retained(content, removed, i) ==
    IF i > Len(content) THEN <<>>
    ELSE (IF i \in removed THEN <<>> ELSE << content[i] >>)
         \o Retained(content, removed, i + 1)

\* C10: a rewrite that succeeds leaves in the file the retained lines of the
\* file as they were on disk, each with the terminator it had.
C10_RetainedLinesAreVerbatim ==
    [][(pc = "write" /\ pc' = "next" /\ ~Raises) =>
        fs'[rls.file_path] =
            Retained(fs[rls.file_path], RemovedNumbers(rls.removed_lines), 1)
    ]_vars


(***************************************************************************)
(* Which files are written back.                                           *)
(***************************************************************************)
\* C11: in both engines the flag that leads to the rewriting of a file is
\* set iff the scan of the file dropped a line; the scan goes on to the backup
\* or the writing only with the flag set, and with the flag unset it leaves
\* the file, the backups and the counters alone; a file changes only in the
\* writing step of a call whose flag is set, a backup is made and
\* files_processed / files_cleaned are counted only in such a call.
C11_WrittenBackIffLineDropped ==
    [][/\ pc = "scan" =>
            /\ rls'.file_modified = (rls'.removed_lines # <<>>)
            /\ rls'.file_modified =
                  (Len(rls'.cleaned_lines) < Len(rls.lines))
            /\ rls'.file_modified = (pc' \in {"backup", "write"})
            /\ ~rls'.file_modified => pc' = "next" /\ stats' = stats
       /\ pc = "clean_scan" =>
            /\ clean'.modified = (clean'.lines_removed > 0)
            /\ pc' = "clean_write" =>
                  /\ clean'.modified
                  /\ Len(clean'.new_lines) < Len(clean.lines)
            /\ ~clean'.modified => pc' = "next"
       /\ fs' # fs =>
            \/ pc = "write" /\ rls.file_modified
            \/ pc = "clean_write" /\ clean.modified
       /\ backups' # backups => pc = "backup" /\ rls.file_modified
       /\ stats'.files_processed # stats.files_processed =>
            pc = "write" /\ rls.file_modified
       /\ files_cleaned' # files_cleaned =>
            pc = "clean_write" /\ clean.modified
    ]_vars

\* A log file of two lines, neither dropped, has been through the loop: it
\* is reported as needing no cleaning and is as it was read.
C11_Witness ==
    /\ mode = "logs"
    /\ pc = "next"
    /\ idx = 2
    /\ Len(clean.lines) = 2
    /\ ~clean.modified
    /\ clean.lines_removed = 0
    /\ ui[Len(ui)].kind = "info"
    /\ readlines(fs[clean.log_file]) = clean.lines
    /\ files_cleaned = 0

(***************************************************************************)
(* The tags of removed statements.                                         *)
(***************************************************************************)
\* C12: for a line that should_remove_line marks removable under a .js,
\* .jsx, .ts or .tsx file type, get_statement_type returns "console." and an
\* allow-listed method, and a call of that method is a match of
\* console_pattern in the line.
C12_TagIsTheRemovingConsoleCall ==
    (/\ classify.called = {"should_remove_line", "get_statement_type"}
     /\ classify.file_type \in CStyleTypes
     /\ classify.removable)
    => \E k \in 1..Len(console_methods) :
          /\ classify.statement_type = Lit.console \o console_methods[k]
          /\ \E i \in 1..Len(classify.line) :
                ConsoleCallAt(classify.line, i, console_methods[k])

\* m is the word that follows the first occurrence of prefix that a word
\* character follows
IsMethodAfter(line, prefix, m) ==
    \E i \in 1..Len(line) :
        LET b == i + Len(prefix)
            e == b + Len(m) - 1
        IN  /\ LitAt(line, i, prefix)
            /\ m # <<>>
            /\ LitAt(line, b, m)
            /\ \A q \in 1..Len(m) : m[q] \in WordChar
            /\ e = Len(line) \/ line[e + 1] \notin WordChar
            /\ \A j \in 1..(i - 1) :
                  ~(/\ LitAt(line, j, prefix)
                    /\ j + Len(prefix) <= Len(line)
                    /\ line[j + Len(prefix)] \in WordChar)

\* No occurrence of prefix is followed by a word character
NoMethodAfter(line, prefix) ==
    \A i \in 1..Len(line) :
        LitAt(line, i, prefix) =>
            \/ i + Len(prefix) > Len(line)
            \/ line[i + Len(prefix)] \notin WordChar

\* t is prefix and the method that follows it in the line, or the generic
\* tag when none does
IsTagOf(t, line, prefix, generic) ==
    \/ NoMethodAfter(line, prefix) /\ t = generic
    \/ /\ Len(t) > Len(prefix)
       /\ SubSeq(t, 1, Len(prefix)) = prefix
       /\ IsMethodAfter(line, prefix, SubSeq(t, Len(prefix) + 1, Len(t)))

\* C13: for a line of a .py file get_statement_type returns logging_import
\* when the line contains "import logging"; else logger_definition when it
\* contains "getLogger"; else "logger." and the method, or logger_statement,
\* when it contains "_logger." or "logger."; else "logging." and the method,
\* or logging_statement, when it contains "logging."; else unknown.
C13_PythonTagPriority ==
    (/\ "get_statement_type" \in classify.called
     /\ classify.file_type \in PythonTypes)
    => LET line == classify.line
           t == classify.statement_type
       IN  IF Contains(line, Lit.import_logging)
           THEN t = Lit.logging_import
           ELSE IF Contains(line, Lit.getLogger)
           THEN t = Lit.logger_definition
           ELSE IF Contains(line, Lit.ulogger_dot)
                     \/ Contains(line, Lit.logger_dot)
           THEN IsTagOf(t, line, Lit.logger_dot, Lit.logger_statement)
           ELSE IF Contains(line, Lit.logging_dot)
           THEN IsTagOf(t, line, Lit.logging_dot, Lit.logging_statement)
           ELSE t = Lit.unknown

\* get_statement_type has returned logger_definition for
\* logger = logging.getLogger(__name__), which also contains "logging."
C13_Witness ==
    /\ classify.line = <<"l","o","g","g","e","r"," ","="," ","l","o","g","g","i","n","g",".","g","e","t","L","o","g","g","e","r","(","_","_","n","a","m","e","_","_",")">>
    /\ classify.file_type = ".py"
    /\ "get_statement_type" \in classify.called
    /\ classify.statement_type = Lit.logger_definition

(***************************************************************************)
(* File types.                                                             *)
(***************************************************************************)
\* C14: the scan of a file that validate_file_type accepts removes every line
\* that is removable under the rules of the file's lower-cased extension
\* (console rules for .js, .jsx, .ts and .tsx, Python rules for .py), and the
\* scan of a file of any other extension removes nothing.
C14_AcceptedFileCleanedByItsCategory ==
    [][pc = "scan" =>
         /\ validate_file_type(rls.file_path) =>
               \A i \in 1..Len(rls.lines) :
                   should_remove_line(rls.lines[i],
                                      suffix_lower(rls.file_path.ext))
                     => i \in RemovedNumbers(rls'.removed_lines)
         /\ ~validate_file_type(rls.file_path) =>
               /\ rls'.removed_lines = <<>>
               /\ pc' = "next"
    ]_vars

(***************************************************************************)
(* Which files are log files.                                              *)
(***************************************************************************)
\* (a) or (b) of the classification: the file's extension is a log extension
\* or its lower-cased name matches a log filename pattern
LogByName(name) ==
    \/ suffix(name) \in log_extensions
    \/ \E k \in 1..NumLogPatterns : log_pattern_search(k, lower(name))

\* Every byte of the content is valid UTF-8
Decodable(content) ==
    \A i \in 1..Len(content) : \A q \in 1..Len(content[i].text) :
        content[i].text[q] # InvalidByte

\* C15: for a regular file, is_log_file returns true when the extension or
\* the lower-cased name is that of a log file, whatever the content and
\* whether or not it can be read; for any other file that can be read and
\* decoded it returns true iff one of the first 5 lines matches a pattern of
\* the timestamp table.
C15_LogByNameOrFirstFiveLines ==
    (sniff.called /\ sniff.file.kind = "file")
    => LET file == sniff.file
           lines == readlines(file.content)
       IN  /\ LogByName(file.name) => sniff.result
           /\ (~LogByName(file.name) /\ file.readable
                 /\ Decodable(file.content))
              => (sniff.result <=>
                    \E i \in 1..Len(lines) :
                        i <= 5 /\ datetime_pattern_search(lines[i]))

\* is_log_file has returned false for test.txt, whose sixth line is the only
\* one with a timestamp
C15_Witness ==
    /\ sniff.called
    /\ ~sniff.result
    /\ sniff.file.kind = "file"
    /\ sniff.file.name = <<"t","e","s","t",".","t","x","t">>
    /\ sniff.file.readable
    /\ Len(sniff.file.content) = 6
    /\ \A i \in 1..5 : sniff.file.content[i].text = <<"n","o"," ","d","a","t","e">>
    /\ sniff.file.content[6].text = <<"2","0","2","4","0","2","1","5"," ","b","a","c","k","u","p">>

\* C16: for a regular file whose name is not that of a log file and whose
\* content cannot be read or cannot be decoded as UTF-8, is_log_file returns
\* false.
C16_UndecodableIsNotALogFile ==
    (/\ sniff.called
     /\ sniff.file.kind = "file"
     /\ ~LogByName(sniff.file.name)
     /\ ~sniff.file.readable \/ ~Decodable(sniff.file.content))
    => ~sniff.result

(***************************************************************************)
(* Directory traversal.                                                    *)
(***************************************************************************)
\* The file lies inside a directory named .git
InGit(place) == \E i \in 1..Len(place[1]) : place[1][i] = <<".","g","i","t">>

\* C17: what get_log_files returns is the set of the files of the tree for
\* which is_log_file is true and which lie in no directory named .git.
C17_ExactlyTheLogFilesOutsideGit ==
    (walk.mode = "logs" /\ walk.pc = "clean" /\ walk.idx = 1)
    => Range(walk.log_files) =
          { place \in DOMAIN walk.tree :
              is_log_file(file_at(walk.tree, place)) /\ ~InGit(place) }

\* C18: neither traversal hands a file under lc-cleaned-assets or under a
\* .git directory to remove_logging_statements or clean_logs_before_date,
\* and every such file keeps the content it had.
C18_AssetsAndGitAreNeverCleaned ==
    \A place \in DOMAIN walk.tree :
        (InGit(place) \/ UnderAssets(place))
        => /\ place \notin Range(walk.handed)
           /\ walk.tree[place] = walk.initial[place]

(***************************************************************************)
(* extract_date.                                                           *)
(***************************************************************************)
\* The pattern of entry p of the table matches in the line and strptime
\* parses what it matched
MatchesAndParses(line, p) ==
    LET match == re_search(datetime_patterns[p].regex, line)
    IN  /\ match # <<>>
        /\ strptime(match, datetime_patterns[p].format).tag = "datetime"

\* The pattern of entry p matches in the line and strptime raises on what it
\* matched
MatchesAndFails(line, p) ==
    LET match == re_search(datetime_patterns[p].regex, line)
    IN  /\ match # <<>>
        /\ strptime(match, datetime_patterns[p].format) = ValueError

\* What the first entry of the table that matches and parses makes of the
\* line, None when there is no such entry
first_parsed(line) ==
    LET ok == { p \in 1..Len(datetime_patterns) : MatchesAndParses(line, p) }
    IN  IF ok = {} THEN None
        ELSE strptime(re_search(datetime_patterns[Leftmost(ok)].regex, line),
                      datetime_patterns[Leftmost(ok)].format)

\* A line that is not blank and that no entry of the table matches and parses
Undated(line) ==
    /\ ~Blank(line)
    /\ \A p \in 1..Len(datetime_patterns) : ~MatchesAndParses(line, p)

\* C19: for every line the loop of clean_logs_before_date asks extract_date
\* about, the date is what the first entry of the table that both matches
\* and parses gives, entries that match and fail to parse being passed over,
\* and None when no entry does; a line with no such entry is among the lines
\* written back, and a file of only such lines and blank lines is not
\* rewritten.
C19_ParseFailureFallsThrough ==
    [][pc = "clean_scan" =>
         /\ \A i \in 1..Len(clean'.log_dates) :
               ~Blank(clean.lines[i]) =>
                   clean'.log_dates[i] = first_parsed(clean.lines[i])
         /\ pc' = "clean_write" =>
               SelectSeq(clean'.new_lines, Undated) =
                   SelectSeq(clean.lines, Undated)
         /\ (\A i \in 1..Len(clean.lines) :
                Blank(clean.lines[i]) \/ Undated(clean.lines[i]))
            => pc' = "next" /\ ~clean'.modified
    ]_vars

\* A file is about to be rewritten with a line kept in which two entries of
\* the table (10 digits, 8 digits) match and neither parses: extract_date
\* went through the whole table and returned None
C19_Witness ==
    /\ pc = "clean_write"
    /\ \E i \in 1..Len(clean.lines) :
          /\ MatchesAndFails(clean.lines[i], 7)
          /\ MatchesAndFails(clean.lines[i], 10)
          /\ clean.log_dates[i] = None
          /\ \E j \in 1..Len(clean.new_lines) :
                clean.new_lines[j] = clean.lines[i]

(***************************************************************************)
(* Unix epoch seconds.                                                     *)
(***************************************************************************)
\* The year that day number days (0 for the first of January of year y)
\* falls in, and the number of the day in that year
RECURSIVE YearOfDay(_, _)
YearOfDay(days, y) ==
    LET n == IF IsLeap(y) THEN 366 ELSE 365
    IN  IF days >= n THEN YearOfDay(days - n, y + 1) ELSE << y, days >>

RECURSIVE MonthOfDay(_, _, _)
MonthOfDay(days, y, m) ==
    IF days >= DaysInMonth(y, m)
    THEN MonthOfDay(days - DaysInMonth(y, m), y, m + 1)
    ELSE << m, days + 1 >>

\* The instant, in UTC, that n seconds after 1970-01-01 00:00:00 denote
epoch_instant(n) ==
    LET yd == YearOfDay(n \div 86400, 1970)
        md == MonthOfDay(yd[2], yd[1], 1)
        s == n % 86400
    IN  datetime(yd[1], md[1], md[2], s \div 3600, (s % 3600) \div 60, s % 60)

\* The only timestamp of the line is a run of 10 digits: the epoch pattern
\* matches, and no other pattern but that of 8 digits, which matches inside
\* every run of 10
EpochOnly(line) ==
    /\ re_search(datetime_patterns[7].regex, line) # <<>>
    /\ \A p \in 1..Len(datetime_patterns) :
          p \notin {7, 10} => re_search(datetime_patterns[p].regex, line) = <<>>

\* C20: for a line whose only timestamp is a 10-digit number of epoch
\* seconds, extract_date returns the instant the number denotes, and a
\* rewriting of the file keeps the line iff that instant is not before the
\* cutoff.
C20_EpochSecondsAreAnInstant ==
    [][pc = "clean_scan" =>
         \A i \in 1..Len(clean.lines) :
             EpochOnly(clean.lines[i]) =>
                 LET line == clean.lines[i]
                     instant ==
                         epoch_instant(
                             Num(re_search(datetime_patterns[7].regex, line),
                                 1, 10))
                 IN  /\ extract_date(line) = instant
                     /\ pc' = "clean_write" =>
                           ((\E j \in 1..Len(clean'.new_lines) :
                                clean'.new_lines[j] = line)
                            <=> ~Before(instant, cutoff_date))
    ]_vars

(***************************************************************************)
(* The two counts clean_logs_before_date returns.                          *)
(***************************************************************************)
\* The number of "Cleaned ..." messages among the first n printed
RECURSIVE Successes(_)
Successes(n) ==
    IF n = 0 THEN 0
    ELSE Successes(n - 1) + (IF ui[n].kind = "success" THEN 1 ELSE 0)

\* The sum of the numbers of removed lines those messages report
RECURSIVE SuccessLines(_)
SuccessLines(n) ==
    IF n = 0 THEN 0
    ELSE SuccessLines(n - 1)
             + (IF ui[n].kind = "success" THEN ui[n].removed ELSE 0)

\* The round of the loop for the current file ends in this step
RoundEnds == mode = "logs" /\ pc' = "next"

\* The round ends with the file rewritten in full
RoundSucceeds ==
    /\ RoundEnds
    /\ pc = "clean_write"
    /\ ui'[Len(ui')].kind = "success"

\* C21: clean_logs_before_date counts in files_cleaned the files it has
\* rewritten with at least one line dropped and in total_lines_removed the
\* lines dropped from exactly those files; a file whose reading, scanning or
\* writing raises is reported, adds to neither count and is followed by the
\* next file; files_cleaned never exceeds the number of files given and
\* total_lines_removed is never below files_cleaned.
C21_CountsOfCleanedFiles ==
    /\ [](mode = "logs" =>
            /\ files_cleaned = Successes(Len(ui))
            /\ total_lines_removed = SuccessLines(Len(ui))
            /\ files_cleaned <= idx - 1
            /\ idx - 1 <= Len(log_files)
            /\ total_lines_removed >= files_cleaned)
    /\ [][RoundEnds =>
            /\ idx' = idx + 1
            /\ IF RoundSucceeds
               THEN LET dropped == Len(clean.lines) - Len(clean.new_lines)
                    IN  /\ dropped >= 1
                        /\ fs'[clean.log_file] = writelines(clean.new_lines)
                        /\ files_cleaned' = files_cleaned + 1
                        /\ total_lines_removed' = total_lines_removed + dropped
                        /\ ui'[Len(ui')].removed = dropped
               ELSE /\ files_cleaned' = files_cleaned
                    /\ total_lines_removed' = total_lines_removed
                    /\ (ui'[Len(ui')].kind = "error"
                           \/ (pc = "clean_scan" /\ ~clean'.modified
                                  /\ fs' = fs))
      ]_vars

\* A call has gone through all its files, one of them raised and a later one
\* was rewritten and counted
C21_Witness ==
    /\ mode = "logs"
    /\ idx = Len(log_files) + 1
    /\ files_cleaned >= 1
    /\ \E i, j \in 1..Len(ui) :
          i < j /\ ui[i].kind = "error" /\ ui[j].kind = "success"

(***************************************************************************)
(* The statistics of LogCleaner.                                           *)
(***************************************************************************)
\* sum(dict.values())
RECURSIVE SumOfValues(_)
SumOfValues(dict) ==
    IF DOMAIN dict = {} THEN 0
    ELSE LET key == CHOOSE k \in DOMAIN dict : TRUE
         IN  dict[key]
                 + SumOfValues([k \in DOMAIN dict \ {key} |-> dict[k]])

\* No count of d1 is lower in d2
NotBelow(d1, d2) ==
    \A key \in DOMAIN d1 : key \in DOMAIN d2 /\ d2[key] >= d1[key]

\* C26: whatever calls of remove_logging_statements have run, the failing ones
\* included, stats['lines_removed'] is the sum of the counts of
\* removed_statements, stats['files_processed'] the sum of the counts of
\* file_types_processed, lines_removed is at least files_processed, and no
\* counter ever decreases.
C26_StatisticsAddUp ==
    /\ [](mode = "code" =>
            /\ stats.lines_removed = SumOfValues(stats.removed_statements)
            /\ stats.files_processed = SumOfValues(stats.file_types_processed)
            /\ stats.lines_removed >= stats.files_processed)
    /\ [][mode = "code" =>
            /\ stats'.lines_removed >= stats.lines_removed
            /\ stats'.files_processed >= stats.files_processed
            /\ NotBelow(stats.removed_statements, stats'.removed_statements)
            /\ NotBelow(stats.file_types_processed,
                        stats'.file_types_processed)
      ]_vars

\* Two calls have run and removed statements of one kind: one failed before
\* counting its file, the other counted its file
C26_Witness ==
    /\ mode = "code"
    /\ pc = "next"
    /\ idx = 3
    /\ stats.files_processed = 1
    /\ stats.lines_removed >= 2
    /\ \E i \in 1..Len(ui) : ui[i].kind = "error"
    /\ \E key \in DOMAIN stats.removed_statements :
          stats.removed_statements[key] >= 2

(***************************************************************************)
(* The cron jobs.                                                          *)
(***************************************************************************)
\* The positions of the jobs of the log cleaner in a list of jobs
Scheduled(crons) ==
    { k \in 1..Len(crons) :
        Len(crons[k].comment) >= Len(job_comment_base)
        /\ SubSeq(crons[k].comment, 1, Len(job_comment_base))
               = job_comment_base }

\* The jobs of other programs, in their order
RECURSIVE OtherJobs(_)
OtherJobs(crons) ==
    IF crons = <<>> THEN <<>>
    ELSE IF 1 \in Scheduled(crons) THEN OtherJobs(Tail(crons))
    ELSE << Head(crons) >> \o OtherJobs(Tail(crons))

\* This step is an operation of the given name
CronStep(name) == cron'.ops = cron.ops + 1 /\ cron'.last.name = name

\* C24: when remove_cron_job has returned True, no job whose comment starts
\* with 'log-cleaner-automated' is left in user_cron or in the crontab, the
\* jobs of other programs are there as before, and the crontab has been
\* written once; has_cron_job is true exactly when at least one job has a
\* comment that starts with the prefix.
C24_RemoveAllLeavesOnlyOtherJobs ==
    /\ [][(CronStep("manage") /\ cron'.last.action = 2
               /\ cron'.last.ret = "True") =>
            /\ Scheduled(cron'.user_cron) = {}
            /\ Scheduled(cron'.crontab) = {}
            /\ cron'.user_cron = OtherJobs(cron.user_cron)
            /\ cron'.crontab = OtherJobs(cron.user_cron)
            /\ cron'.last.writes = 1
      ]_vars
    /\ [](has_cron_job(cron.user_cron)
             <=> Cardinality(Scheduled(cron.user_cron)) >= 1)

\* remove_cron_job has returned True for a crontab with two schedules next
\* to each other and the job of another program, which is still there
C24_Witness ==
    /\ cron.last.name = "manage"
    /\ cron.last.action = 2
    /\ cron.last.ret = "True"
    /\ \E k \in 1..(Len(cron.last.before) - 1) :
          {k, k + 1} \subseteq Scheduled(cron.last.before)
    /\ Len(cron.user_cron) >= 1
    /\ Len(cron.last.before) = Len(cron.user_cron) + 2

\* C29: with more than one schedule listed, 'Remove specific schedule'
\* removes exactly the schedule whose number the user entered, and a number
\* outside 1..N removes no schedule.
C29_RemovesTheNumberedSchedule ==
    [][(CronStep("manage") /\ cron'.last.action = 1
            /\ Len(cron'.last.listed) > 1
            /\ ~int(cron'.last.input).raised) =>
          LET jobs == cron'.last.listed
              job_num == int(cron'.last.input).value
          IN  IF job_num \in 1..Len(jobs)
              THEN cron'.user_cron
                       = SelectSeq(cron.user_cron,
                                   LAMBDA job : job # jobs[job_num])
              ELSE /\ cron'.user_cron = cron.user_cron
                   /\ cron'.crontab = cron.crontab
    ]_vars

\* The number of days the user entered when the schedule of job id was made
EnteredFor(id) == { pair[2] : pair \in { p \in cron.entered : p[1] = id } }

\* C27: a run that cron starts for a schedule made in _configure_log_retention
\* cleans with the retention period the user entered there: its cutoff is
\* that number of days before now, and it deletes no line of the cutoff's
\* date or newer.
C27_ScheduledRunUsesEnteredRetention ==
    [][CronStep("run") =>
          \A days \in EnteredFor(cron'.last.job) :
              LET configured == minus_days(CronNow, days)
                  lines == readlines(cron.log)
                  left == readlines(cron'.log)
              IN  /\ cron'.last.cutoff = configured
                  /\ \A i \in 1..Len(lines) :
                        ~Before(extract_date(lines[i]), configured) =>
                            \E j \in 1..Len(left) : left[j] = lines[i]
    ]_vars

(***************************************************************************)
(* Termination signals.                                                    *)
(***************************************************************************)
\* The message is among those printed
Printed(message) ==
    \E k \in 1..Len(signals.ui) : signals.ui[k] = message

\* The process has ended
Exited == signals.status # "running"

\* C22: a process that ends after termination signals none of which found
\* killed set has set killed, printed the 'Cleaning up...' warning, called
\* the registered cleanup callback exactly once and exits with status 0,
\* also when the callback raised; in testing mode the first call of the
\* handler sets killed, prints the warning and raises KeyboardInterrupt, and
\* the callback is not called; killed never becomes false again.
C22_FirstSignalCleansUpAndExits ==
    /\ []((~signals.testing /\ Exited /\ signals.forced = 0) =>
            /\ signals.delivered >= 1
            /\ signals.killed
            /\ signals.ui = << "Cleaning up..." >>
            /\ signals.calls = (IF signals.registered THEN 1 ELSE 0)
            /\ signals.status = "exit 0")
    /\ []((signals.testing /\ signals.thrown # <<>>) =>
            /\ signals.thrown[1] = "KeyboardInterrupt"
            /\ signals.killed
            /\ signals.ui[1] = "Cleaning up..."
            /\ signals.calls = 0)
    /\ [](signals.calls <= 1)
    /\ [][signals.killed => signals'.killed]_vars

\* One signal was delivered, the registered callback was called and raised,
\* and the process has ended with status 0
C22_Witness ==
    /\ ~signals.testing
    /\ signals.delivered = 1
    /\ signals.calls = 1
    /\ signals.callback_raised
    /\ signals.status = "exit 0"

\* C23: a process in which a termination signal found killed set, be it
\* while the cleanup callback of the first signal was running, has printed
\* 'Force quitting...' and ends with exit status 1, and the cleanup callback
\* has not been called a second time.
C23_SecondSignalForcesExitStatus1 ==
    (~signals.testing /\ Exited /\ signals.forced >= 1) =>
        /\ Printed("Force quitting...")
        /\ signals.status = "exit 1"
        /\ signals.calls <= 1

(***************************************************************************)
(* The session loop.                                                       *)
(***************************************************************************)
\* This step is a round of the loop of initialize_session
RoundStep == session'.rounds = session.rounds + 1

\* C28: in every round of the session loop, _select_file_types returns False
\* when the user declines all supported types and every single extension,
\* whatever earlier rounds selected, and when it returns True selected_types
\* holds only extensions the user accepted in this call.
C28_SelectionIsOfThisRoundOnly ==
    [][(RoundStep /\ session'.last.select # "not called") =>
          LET round == session'.last
              accepted_now == IF round.all THEN SUPPORTED_EXTENSIONS
                              ELSE round.accepted
          IN  /\ (~round.all /\ round.accepted = {}) =>
                     round.select = "False"
              /\ round.select = "True" =>
                     session'.selected_types \subseteq accepted_now
    ]_vars

\* The source path is a directory or a list, not empty, of files that exist
\* and have a supported type
ValidSource(source) ==
    \/ source.kind = "dir"
    \/ /\ source.kind = "list"
       /\ source.files # <<>>
       /\ \A k \in 1..Len(source.files) :
             \E entered \in EnteredFiles :
                 /\ entered.is_file
                 /\ suffix_lower(entered.path.ext) \in SUPPORTED_EXTENSIONS
                 /\ source.files[k]
                        = [entered.path EXCEPT !.dir = Cwd \o @]

\* C30: initialize_session returns True only from a round whose mode was 1
\* or 3 and whose _setup_code_cleaning succeeded and, for mode 3, whose
\* _setup_log_cleaning succeeded as well; a round of mode 2 never returns
\* True; so when main goes on to process_files, source_path is a directory
\* or a non-empty list of validated files.
C30_TrueOnlyAfterCodeSetup ==
    session.returned = "True" =>
        /\ session.last.mode_choice \in {1, 3}
        /\ session.last.code_setup = "True"
        /\ session.last.mode_choice = 3 => session.last.log_setup = "True"
        /\ ValidSource(session.source_path)

\* initialize_session has returned True from its second round, of mode 3,
\* with the files the user entered as source_path
C30_Witness ==
    /\ session.returned = "True"
    /\ session.rounds = 2
    /\ session.last.mode_choice = 3
    /\ session.source_path.kind = "list"

(***************************************************************************)
(* Where the backups go.                                                   *)
(***************************************************************************)
\* The path of the project file at place relative to the directory the
\* source stands for
RelativeToSource(place) ==
    LET base == resolve(source_base(backing.source_path))
        full == ProjectDir \o place.dir
    IN  [place EXCEPT !.dir = SubSeq(full, Len(base) + 1, Len(full))]

\* C25: make_backup stores every modified file at its path relative to the
\* source base under current_backup_dir, so that no two source files have
\* the same backup path and the backup directory holds what each modified
\* file contained before the cleaning, in whatever way the source was given:
\* by a relative path, through a symbolic link, or with files of one name in
\* several directories.
C25_EveryModifiedFileHasItsOwnBackup ==
    \A entry \in backing.saved :
        /\ entry.backup_path = RelativeToSource(entry.place)
        /\ entry.backup_path \in DOMAIN backing.backups
        /\ backing.backups[entry.backup_path] = backing.initial[entry.place]
        /\ \A other \in backing.saved :
              other.place # entry.place =>
                  other.backup_path # entry.backup_path
====
